---- MODULE Spec2Model ----
(***************************************************************************)
(* State-machine model of the EyeTune trackers (src/Vision/trackers.py).   *)
(*                                                                         *)
(* Units.  Wall-clock time (time.time()) is counted in centiseconds, so    *)
(* 0.27 s = 27, 0.5 s = 50.  EAR values are counted in hundredths          *)
(* (0.20 = 20), brightness in luminance units, distances in tenths of a    *)
(* centimetre (35 cm = 350), eye-centre offset fractions in thousandths.   *)
(* None is modelled by the value NONE.                                     *)
(***************************************************************************)
EXTENDS Integers, Sequences, FiniteSets

\* ---------------------------------------------------------------- bounds
StartTime == 4000          \* time.time() when the trackers are constructed
Horizon == 60
LightHorizon == 6100
DirHorizon == 130
MaxLog == 3
MaxLaLen == 3
MaxTicks == 3
MaxThreads == 3
MaxInFlight == 2
HistoryGap == 60
MaxRateLen == 3
NotifyHorizon == 300
AppHorizon == 3200
HealthHorizon == 500
UtilsLightHorizon == 6100
MaxPending == 2
ZoomHorizon == 3400

\* ------------------------------------------------------------- constants
NONE == -1                 \* None in a numeric field
NoState == "None"          \* None in a state field
MaxTime == StartTime + Horizon
LightMaxTime == StartTime + LightHorizon
DirMaxTime == StartTime + DirHorizon

EAR_BLINK_THRES == 20
BRIGHTNESS_THRESHOLD == 90
DISTANCE_CLOSE_THRESHOLD == 350
DISTANCE_FAR_THRESHOLD == 400
MAX_BLINK_HISTORY == 60
MINUTE == 6000
REFRACTORY_SEC == 27
MIN_LANDMARKS == 400
COLOR_ADJUST_INTERVAL == 3000
HYSTERESIS == 5
MIN_IRIS_LANDMARKS == 468
RIGHT_IRIS_RIGHT == 475
OFFSET_THRES == 30
EAR_ZOOM_IN_THRES == 23
EAR_ZOOM_OUT_THRES == 28
hold_duration == 3000
squint_required_duration == 200
BUFFER_TIME == 50
MAX_CONTINUOUS_FOCUS == 6000
cooldown_duration == 300

\* ----------------------------------------------------------------- state
VARIABLES
  now,                    \* the wall clock read by time.time()
  \* BlinkTracker
  counter, is_currently_blinking, last_blink_time, recent_times,
  blink_ret,              \* value returned by the last BlinkTracker.detect
  edge_time,              \* clock of the latest false->true edge tick
  edge_counter,           \* counter just before that edge tick
  edge_last,              \* last_blink_time just before that edge tick
  blink_rate,             \* value returned by the last calculate_blink_rate
  \* AmbientLightTracker
  data, light_last_known_state, state_changes, dark_start_time,
  last_color_adjust_time,
  threads_started,        \* color_theme.auto_adjust threads started so far
  tasks_in_flight,        \* those of them that have not ended yet
  task_failures,          \* those of them that ended by raising
  failure_flips,          \* light_flips when the latest of them raised
  attempt_time,           \* clock of the latest tick that reached line 133
  attempt_failed,         \* line 133 raised on that tick, or a task has
                          \* ended by raising since
  light_ret,              \* value returned by the last process call
  light_flips,            \* ticks on which data["ambient_light"] changed
  scn,                    \* samples of Scenario fed so far to a fresh
                          \* tracker, NONE once the feed departs from it
  \* DistanceTracker
  distance_changes, distance_last_known_state, distance_state_start_time,
  dist_ret,               \* value returned by the last measure call
  dist_in,                \* arguments of the last measure call
  dist_band,              \* band computed by the last measure call
  dist_repeats,           \* consecutive repeats of dist_in so far (capped)
  \* DirectionTracker
  direction_changes, last_known_direction, direction_state_start_time,
  last_change_time,
  dir_ret,                \* value returned by the last detect call
  dir_in,                 \* arguments of the last detect call
  dir_repeats,            \* consecutive repeats of dir_in so far (capped)
  dir_repeat_appends,     \* entries appended by those repeats
  \* DirectionTracker.get_look_away_time applied to a given log
  la_log,                 \* self.changes at the call
  la_result,              \* the value returned
  la_done,                \* whether the call has returned
  \* the dicts last returned by the snap() methods
  dir_snap,               \* DirectionTracker.snap()
  light_snap,             \* AmbientLightTracker.snap()
  \* ZoomController
  adjusted, squint_start_time, squint_hold_start,
  running,                \* the main loop is still iterating
  tick_calls,             \* actuator calls made by the latest apply
  actuator_log,           \* all actuator calls made so far
  zoom_ear,               \* the EAR given to the latest apply
  below_since,            \* first tick of the present run of low-EAR ticks
  zoom_in_time,           \* time of the latest scale() call
  \* the main loop of stream.py
  ticks,                  \* iterations begun
  failed,                 \* the collaborator that raised in the latest one
  notified,               \* warning kinds sent to the notifier by it
  last_notified,          \* per kind, when the notifier was last called
  \* EyeTuneApp and EyeTracker of eyetune_app.py
  is_tracking,            \* EyeTuneApp.is_tracking
  tracker_running,        \* EyeTracker.running
  thread_pc,              \* where each _track_loop thread is
  started,                \* threads created by start_tracking so far
  cap_state,              \* EyeTracker.cap: absent, open or released
  \* NotificationManager
  notification_cooldowns, \* the dict: key -> time
  active_notifications,   \* number of widgets in the list
  last_shown,             \* per warning type, when it was last displayed
  nm_request,             \* the latest request and whether it was displayed
  \* utils.py direction globals, as the tray application drives them
  utils_direction_changes, utils_last_known_direction,
  utils_last_direction_change_time,
  \* EyeTracker.metrics
  metrics_brightness, metrics_distance_cm, metrics_is_squinting,
  metrics_gaze_direction, metrics_look_away_time, metrics_blink_rate,
  \* EyeTuneApp.handle_eye_health_notifications
  low_light_start_time, distance_warning_start_time, squinting_start_time,
  pending,                \* metrics_updated emissions not yet delivered
  requested,              \* warning types the latest delivery requested
  processed,              \* what each processed delivery found, in order
  withheld,               \* warning types due at the latest delivery, when
                          \* that one came while paused
  away_since,             \* since when the frames have had the gaze away
  \* utils.py ambient light globals
  ambient_light_data, last_known_light_state, light_state_changes,
  dark_environment_start_time, utils_last_color_adjust_time,
  utils_threads_started,  \* color_theme.auto_adjust threads started so far
  utils_light_ret         \* value returned by the last process_ambient_light

blinkVars == <<counter, is_currently_blinking, last_blink_time, recent_times,
               blink_ret, edge_time, edge_counter, edge_last, blink_rate>>

lightVars == <<data, light_last_known_state, state_changes, dark_start_time,
               last_color_adjust_time, threads_started, tasks_in_flight,
               task_failures, failure_flips, attempt_time, attempt_failed,
               light_ret, light_flips,
               scn>>

distanceVars == <<distance_changes, distance_last_known_state,
                  distance_state_start_time, dist_ret, dist_in, dist_band,
                  dist_repeats>>

directionVars == <<direction_changes, last_known_direction,
                   direction_state_start_time, last_change_time, dir_ret,
                   dir_in, dir_repeats, dir_repeat_appends>>

lookAwayVars == <<la_log, la_result, la_done>>

snapVars == <<dir_snap, light_snap>>

zoomVars == <<adjusted, squint_start_time, squint_hold_start, tick_calls,
              actuator_log, zoom_ear, below_since, zoom_in_time>>

streamVars == <<ticks, failed, notified, last_notified>>

trackVars == <<is_tracking, tracker_running, thread_pc, started, cap_state>>

\* The state of eyetune_app.py.
notifyVars == <<notification_cooldowns, active_notifications, last_shown,
                nm_request>>

utilsDirVars == <<utils_direction_changes, utils_last_known_direction,
                  utils_last_direction_change_time>>

metricsVars == <<metrics_brightness, metrics_distance_cm,
                 metrics_is_squinting, metrics_gaze_direction,
                 metrics_look_away_time, metrics_blink_rate>>

handlerVars == <<low_light_start_time, distance_warning_start_time,
                 squinting_start_time, requested, processed, withheld>>

healthVars == <<utilsDirVars, metricsVars, handlerVars, pending, away_since>>

utilsLightVars == <<ambient_light_data, last_known_light_state,
                    light_state_changes, dark_environment_start_time,
                    utils_last_color_adjust_time, utils_threads_started,
                    utils_light_ret>>

appVars == <<trackVars, notifyVars, healthVars, utilsLightVars>>

\* The state of the Vision package.
visionVars == <<blinkVars, lightVars, distanceVars, directionVars,
                lookAwayVars, snapVars, zoomVars, running, streamVars>>

vars == <<now, blinkVars, lightVars, distanceVars, directionVars,
          lookAwayVars, snapVars, zoomVars, running, streamVars,
          appVars>>

\* What a call on one tracker leaves alone.
notBlink == <<lightVars, distanceVars, directionVars, lookAwayVars,
              snapVars, zoomVars, running,
                 streamVars, appVars>>
notLight == <<blinkVars, distanceVars, directionVars, lookAwayVars,
              snapVars, zoomVars, running,
                 streamVars, appVars>>
notDistance == <<blinkVars, lightVars, directionVars, lookAwayVars,
                 snapVars, zoomVars, running,
                 streamVars, appVars>>
notDirection == <<blinkVars, lightVars, distanceVars, lookAwayVars,
                  snapVars, zoomVars, running,
                 streamVars, appVars>>

\* ---------------------------------------------------------------- inputs
Steps == {0, 5, 10, 17, 27}
LandmarkCounts == {399, 400, 478}
EarValues == {15, 19, 20, 25}

\* ----------------------------------------------------------- BlinkTracker
\* A rate in blinks per minute, kept as the quotient num / den; 0.0 is 0/1.
ZeroRate == [num |-> 0, den |-> 1]

BlinkInit ==
  /\ counter = 0
  /\ is_currently_blinking = FALSE
  /\ last_blink_time = now
  /\ recent_times = <<>>
  /\ blink_ret = [is_blinking |-> FALSE, avg_ear |-> 0, blink_counter |-> 0]
  /\ edge_time = NONE
  /\ edge_counter = 0
  /\ edge_last = NONE
  /\ blink_rate = ZeroRate

AcceptsNoRefractory(current_time, last) == current_time - last >= 0

AcceptsStrict(current_time, last) == current_time - last > REFRACTORY_SEC

Accepts(current_time, last) == current_time - last >= REFRACTORY_SEC

PushHistoryUnbounded(h, t) == Append(h, t)

PushHistory(h, t) ==
  LET a == Append(h, t)
  IN  IF Len(a) > MAX_BLINK_HISTORY THEN Tail(a) ELSE a

TooFewLandmarksNever(n) == FALSE

\* Lines 56 and 267: len(face_landmarks) < 400.
TooFewLandmarks(n) == n < MIN_LANDMARKS

NextBlinkingWhenCounted(edge, accept, is_blinking, flag) ==
  IF edge THEN accept
  ELSE IF ~is_blinking /\ flag THEN FALSE
  ELSE flag

\* Lines 72-74: the flag is set on every edge, counted or not,
\* and cleared by a tick that is not blinking.
NextBlinking(edge, accept, is_blinking, flag) ==
  IF edge THEN TRUE
  ELSE IF ~is_blinking /\ flag THEN FALSE
  ELSE flag

\* BlinkTracker.detect, with time.time() read as now'.
BlinkBody(n, ear) ==
  /\ UNCHANGED blink_rate
  /\ IF TooFewLandmarks(n)
     THEN /\ blink_ret' = [is_blinking |-> FALSE, avg_ear |-> 0,
                           blink_counter |-> counter]
          /\ UNCHANGED <<counter, is_currently_blinking, last_blink_time,
                         recent_times, edge_time, edge_counter, edge_last>>
     ELSE LET is_blinking == ear < EAR_BLINK_THRES
              current_time == now'
              edge == is_blinking /\ ~is_currently_blinking
              accept == edge /\ Accepts(current_time, last_blink_time)
          IN  /\ counter' = IF accept THEN counter + 1 ELSE counter
              /\ recent_times' = IF accept
                                 THEN PushHistory(recent_times, current_time)
                                 ELSE recent_times
              /\ last_blink_time' = IF accept THEN current_time
                                    ELSE last_blink_time
              /\ is_currently_blinking' =
                   NextBlinking(edge, accept, is_blinking,
                                is_currently_blinking)
              /\ blink_ret' = [is_blinking |-> is_blinking, avg_ear |-> ear,
                               blink_counter |-> counter']
              /\ edge_time' = IF edge THEN current_time ELSE edge_time
              /\ edge_counter' = IF edge THEN counter ELSE edge_counter
              /\ edge_last' = IF edge THEN last_blink_time ELSE edge_last

BlinkDetect(n, ear, d) ==
  /\ now + d <= MaxTime
  /\ now' = now + d
  /\ UNCHANGED notBlink
  /\ BlinkBody(n, ear)

RateOfAllEntries(times) ==
  IF Len(times) < 2 THEN ZeroRate
  ELSE LET time_span == times[Len(times)] - times[1]
       IN  IF time_span > 0
           THEN [num |-> Len(times) * MINUTE, den |-> time_span]
           ELSE ZeroRate

\* BlinkTracker.calculate_blink_rate: minutes is time_span / 60.0 and the
\* value returned is (len - 1) / minutes.
RateOf(times) ==
  IF Len(times) < 2 THEN ZeroRate
  ELSE LET time_span == times[Len(times)] - times[1]
       IN  IF time_span > 0
           THEN [num |-> (Len(times) - 1) * MINUTE, den |-> time_span]
           ELSE ZeroRate

\* A call of calculate_blink_rate, as snap() makes it.
CalculateBlinkRate ==
  /\ blink_rate' = RateOf(recent_times)
  /\ UNCHANGED <<now, counter, is_currently_blinking, last_blink_time,
                 recent_times, blink_ret, edge_time, edge_counter, edge_last,
                 notBlink>>

\* ---------------------------------------------------- AmbientLightTracker
LightSteps == {0, 1500, 3001}
BAD_FRAME == -1            \* a frame whose channel slicing raises
Frames == {BAD_FRAME, 80, 84, 85, 86, 94, 95, 96}
Scenario == <<95, 95, 80, 80, 80>>

LightInit ==
  /\ data = [ambient_light |-> "light", timestamp |-> NONE]
  /\ light_last_known_state = NoState
  /\ state_changes = <<>>
  /\ dark_start_time = NONE
  /\ last_color_adjust_time = 0
  /\ threads_started = 0
  /\ tasks_in_flight = 0
  /\ task_failures = 0
  /\ failure_flips = NONE
  /\ attempt_time = NONE
  /\ attempt_failed = FALSE
  /\ light_ret = 0
  /\ light_flips = 0
  /\ scn = 0

ClassifySingleThreshold(prev_state, brightness) ==
  IF brightness >= BRIGHTNESS_THRESHOLD THEN "light" ELSE "dark"

ClassifyNarrowBand(prev_state, brightness) ==
  IF prev_state = "light"
  THEN IF brightness >= BRIGHTNESS_THRESHOLD - 1 THEN "light" ELSE "dark"
  ELSE IF brightness >= BRIGHTNESS_THRESHOLD + 1 THEN "light" ELSE "dark"

Classify(prev_state, brightness) ==
  LET threshold_up == BRIGHTNESS_THRESHOLD + HYSTERESIS
      threshold_down == BRIGHTNESS_THRESHOLD - HYSTERESIS
  IN  IF prev_state = "light"
      THEN IF brightness >= threshold_down THEN "light" ELSE "dark"
      ELSE IF brightness >= threshold_up THEN "light" ELSE "dark"

NextLastKnownOnlyFirst(last, current_state) ==
  IF last = NoState THEN current_state ELSE last

\* Lines 121 and 128: both branches that log store the state; a tick that
\* does not log has current_state equal to it already.
NextLastKnown(last, current_state) == current_state

LogsEveryTick(last, current_state) == TRUE

Logs(last, current_state) == last = NoState \/ current_state # last

AdjustDueAtInterval(current_time, last_adjust) ==
  current_time - last_adjust >= COLOR_ADJUST_INTERVAL

AdjustDue(current_time, last_adjust) ==
  current_time - last_adjust > COLOR_ADJUST_INTERVAL

NextDarkStartRefreshed(current_state, dark_start, current_time) ==
  IF current_state = "dark" THEN current_time ELSE NONE

\* Lines 115-118: dark_start_time after the tick.
NextDarkStart(current_state, dark_start, current_time) ==
  IF current_state = "dark" /\ dark_start = NONE THEN current_time
  ELSE IF current_state = "light" THEN NONE
  ELSE dark_start

\* AmbientLightTracker.process, with time.time() read as now'.
LightBody(frame, start_ok) ==
  /\ UNCHANGED <<task_failures, failure_flips>>
  /\ scn' = IF scn # NONE /\ scn < Len(Scenario) /\ frame = Scenario[scn + 1]
            THEN scn + 1 ELSE NONE
  /\ IF frame = BAD_FRAME
     THEN /\ light_ret' = 0
          /\ UNCHANGED <<data, light_last_known_state, state_changes,
                         dark_start_time, last_color_adjust_time,
                         threads_started, tasks_in_flight, light_flips,
                         attempt_time, attempt_failed>>
     ELSE LET current_time == now'
              brightness == frame
              prev_state == IF light_last_known_state = NoState THEN "light"
                            ELSE light_last_known_state
              current_state == Classify(prev_state, brightness)
              logs == Logs(light_last_known_state, current_state)
              entry == [ambient_light |-> current_state,
                        timestamp |-> current_time]
          IN  /\ Len(state_changes) < MaxLog \/ ~logs
              /\ dark_start_time' =
                   NextDarkStart(current_state, dark_start_time,
                                 current_time)
              /\ data' = IF logs THEN entry ELSE data
              /\ light_last_known_state' =
                   NextLastKnown(light_last_known_state, current_state)
              /\ state_changes' = IF logs THEN Append(state_changes, entry)
                                  ELSE state_changes
              /\ IF AdjustDue(current_time, last_color_adjust_time)
                 THEN /\ attempt_time' = current_time
                      /\ attempt_failed' = ~start_ok
                 ELSE UNCHANGED <<attempt_time, attempt_failed>>
              /\ IF AdjustDue(current_time, last_color_adjust_time) /\ start_ok
                 THEN /\ threads_started' = threads_started + 1
                      /\ tasks_in_flight' = tasks_in_flight + 1
                      /\ last_color_adjust_time' = current_time
                 ELSE UNCHANGED <<threads_started, tasks_in_flight,
                                  last_color_adjust_time>>
              /\ light_ret' = brightness
              /\ light_flips' = IF data'.ambient_light # data.ambient_light
                                THEN light_flips + 1 ELSE light_flips

LightProcess(frame, start_ok, d) ==
  /\ now + d <= LightMaxTime
  /\ now' = now + d
  /\ UNCHANGED notLight
  /\ LightBody(frame, start_ok)

TaskFailureSurfaces(ok, ret) == IF ok THEN ret ELSE 0

\* What the end of a task does to the value process returned: the task runs
\* color_theme.auto_adjust as the target of its own thread, so an exception
\* of it ends that thread only.
TaskEffectOnReturn(ok, ret) == ret

\* A color_theme.auto_adjust thread ends, normally (ok) or by raising.
TaskEnds(ok) ==
  /\ tasks_in_flight > 0
  /\ tasks_in_flight' = tasks_in_flight - 1
  /\ task_failures' = IF ok THEN task_failures ELSE task_failures + 1
  /\ failure_flips' = IF ok THEN failure_flips ELSE light_flips
  /\ attempt_failed' = (attempt_failed \/ ~ok)
  /\ UNCHANGED attempt_time
  /\ light_ret' = TaskEffectOnReturn(ok, light_ret)
  /\ UNCHANGED <<data, light_last_known_state, state_changes,
                 dark_start_time, last_color_adjust_time, threads_started,
                 light_flips, scn>>
  /\ UNCHANGED <<now, notLight>>

\* -------------------------------------------------------- DistanceTracker
\* A measure call is given the landmark count n, whether the frame has a
\* shape (frame_ok) and the iris geometry.  The iris geometry is named by
\* the distance, in tenths of a centimetre, that line 177 computes from the
\* average iris pixel width; ZERO_WIDTH names an average width of 0.
DistSteps == {0, 25}
DistLandmarkCounts == {467, 470, 478}
ZERO_WIDTH == 0
IrisInputs == {ZERO_WIDTH, 349, 350, 400, 401}
NoInput == [n |-> NONE, frame_ok |-> FALSE, iris |-> NONE]
MaxRepeats == 2

Min(a, b) == IF a < b THEN a ELSE b

DistanceInit ==
  /\ distance_changes = <<>>
  /\ distance_last_known_state = NoState
  /\ distance_state_start_time = now
  /\ dist_ret = NONE
  /\ dist_in = NoInput
  /\ dist_band = NoState
  /\ dist_repeats = 0

DistanceOf(iris) == IF iris = ZERO_WIDTH THEN NONE ELSE iris

Truthy(distance) == distance # NONE /\ distance # 0

BandWideClose(distance) ==
  IF Truthy(distance) /\ distance <= DISTANCE_CLOSE_THRESHOLD THEN "close"
  ELSE IF Truthy(distance) /\ distance <= DISTANCE_FAR_THRESHOLD THEN "med"
  ELSE "far"

Band(distance) ==
  IF Truthy(distance) /\ distance < DISTANCE_CLOSE_THRESHOLD THEN "close"
  ELSE IF Truthy(distance) /\ DISTANCE_CLOSE_THRESHOLD <= distance
                          /\ distance <= DISTANCE_FAR_THRESHOLD THEN "med"
  ELSE "far"

DistanceEntryFromNow(state, start_time, end_time) ==
  [state |-> state, start_time |-> end_time, end_time |-> end_time]

DistanceEntrySwapped(state, start_time, end_time) ==
  [state |-> state, start_time |-> end_time, end_time |-> start_time]

DistanceEntry(state, start_time, end_time) ==
  [state |-> state, start_time |-> start_time, end_time |-> end_time]

BandChangedAlways(band, last) == TRUE

BandChanged(band, last) == band # last

\* DistanceTracker.measure, with time.time() read as now'.
DistanceBody(n, frame_ok, iris) ==
  /\ dist_in' = [n |-> n, frame_ok |-> frame_ok, iris |-> iris]
  /\ dist_repeats' = IF dist_in' = dist_in
                     THEN Min(dist_repeats + 1, MaxRepeats) ELSE 0
  /\ IF n < MIN_IRIS_LANDMARKS \/ ~frame_ok \/ n <= RIGHT_IRIS_RIGHT
     THEN \* too few landmarks, or IndexError / AttributeError caught
          /\ dist_ret' = NONE
          /\ dist_band' = NoState
          /\ UNCHANGED <<distance_changes, distance_last_known_state,
                         distance_state_start_time>>
     ELSE LET current_time == now'
              distance == DistanceOf(iris)
              current_distance_state == Band(distance)
          IN  /\ dist_ret' = distance
              /\ dist_band' = current_distance_state
              /\ IF distance_last_known_state = NoState
                 THEN /\ distance_last_known_state' = current_distance_state
                      /\ distance_state_start_time' = current_time
                      /\ UNCHANGED distance_changes
                 ELSE IF BandChanged(current_distance_state,
                                     distance_last_known_state)
                 THEN /\ Len(distance_changes) < MaxLog
                      /\ distance_changes' =
                           Append(distance_changes,
                                  DistanceEntry(distance_last_known_state,
                                                distance_state_start_time,
                                                current_time))
                      /\ distance_last_known_state' = current_distance_state
                      /\ distance_state_start_time' = current_time
                 ELSE UNCHANGED <<distance_changes, distance_last_known_state,
                                  distance_state_start_time>>

DistanceMeasure(n, frame_ok, iris, d) ==
  /\ now + d <= MaxTime
  /\ now' = now + d
  /\ UNCHANGED notDistance
  /\ DistanceBody(n, frame_ok, iris)

\* ------------------------------------------------------- DirectionTracker
\* A detect call is given the landmark count n and the eye geometry, named
\* by the offset fraction of line 290 in thousandths.
DirSteps == {0, 30, 50, 60}
Offsets == {-31, -30, 0, 30, 31}
NoDirInput == [n |-> NONE, offset |-> 0]

DirectionInit ==
  /\ direction_changes = <<>>
  /\ last_known_direction = NoState
  /\ direction_state_start_time = now
  /\ last_change_time = now
  /\ dir_ret = NoState
  /\ dir_in = NoDirInput
  /\ dir_repeats = 0
  /\ dir_repeat_appends = 0

Direction(offset_fraction) ==
  IF offset_fraction < -OFFSET_THRES THEN "left"
  ELSE IF offset_fraction > OFFSET_THRES THEN "right"
  ELSE "center"

DirectionEntry(current_direction, current_time) ==
  [away |-> IF current_direction = "center" THEN 0 ELSE 1,
   timestamp |-> current_time]

AcceptsWithoutCompare(current_direction, last, current_time, last_change) ==
  current_time - last_change > BUFFER_TIME

AcceptsAtBuffer(current_direction, last, current_time, last_change) ==
  /\ current_direction # last
  /\ current_time - last_change >= BUFFER_TIME

AcceptsChange(current_direction, last, current_time, last_change) ==
  /\ current_direction # last
  /\ current_time - last_change > BUFFER_TIME

\* DirectionTracker.detect, with time.time() read as now'.
DirectionBody(n, offset) ==
  /\ dir_in' = [n |-> n, offset |-> offset]
  /\ dir_repeats' = IF dir_in' = dir_in
                    THEN Min(dir_repeats + 1, MaxRepeats) ELSE 0
  /\ UNCHANGED direction_state_start_time
  /\ IF TooFewLandmarks(n)
     THEN /\ dir_ret' = "unknown"
          /\ UNCHANGED <<direction_changes, last_known_direction,
                         last_change_time>>
     ELSE LET current_direction == Direction(offset)
              current_time == now'
          IN  /\ dir_ret' = current_direction
              /\ IF last_known_direction = NoState
                 THEN /\ last_known_direction' = current_direction
                      /\ direction_changes' =
                           Append(direction_changes,
                                  DirectionEntry(current_direction,
                                                 current_time))
                      /\ UNCHANGED last_change_time
                 ELSE IF AcceptsChange(current_direction, last_known_direction,
                                       current_time, last_change_time)
                 THEN /\ Len(direction_changes) < MaxLog
                      /\ direction_changes' =
                           Append(direction_changes,
                                  DirectionEntry(current_direction,
                                                 current_time))
                      /\ last_known_direction' = current_direction
                      /\ last_change_time' = current_time
                 ELSE UNCHANGED <<direction_changes, last_known_direction,
                                  last_change_time>>
  /\ dir_repeat_appends' =
       (IF dir_in' = dir_in THEN dir_repeat_appends ELSE 0)
       + Len(direction_changes') - Len(direction_changes)

DirectionDetect(n, offset, d) ==
  /\ now + d <= DirMaxTime
  /\ now' = now + d
  /\ UNCHANGED notDirection
  /\ DirectionBody(n, offset)

DirectionReset(d) ==
  /\ now + d <= DirMaxTime
  /\ now' = now + d
  /\ UNCHANGED notDirection
  /\ direction_changes' = <<>>
  /\ last_known_direction' = NoState
  /\ direction_state_start_time' = now'
  /\ last_change_time' = now'
  /\ dir_in' = NoDirInput
  /\ dir_repeats' = 0
  /\ dir_repeat_appends' = 0
  /\ UNCHANGED dir_ret

\* ------------------------------------ DirectionTracker.get_look_away_time
PairTimeOfNext(current, next_change) ==
  IF next_change.away = 1
  THEN next_change.timestamp - current.timestamp ELSE 0

\* One round of the loop over zip(changes[:-1], changes[1:]).
PairTime(current, next_change) ==
  IF current.away = 1
  THEN next_change.timestamp - current.timestamp ELSE 0

RECURSIVE LookAwayLoop(_, _, _)
LookAwayLoop(changes, i, total_time) ==
  IF i > Len(changes) - 1 THEN total_time
  ELSE LookAwayLoop(changes, i + 1,
                    total_time + PairTime(changes[i], changes[i + 1]))

GetLookAwayTime(changes) ==
  IF Len(changes) < 2 THEN 0 ELSE LookAwayLoop(changes, 1, 0)

LaTimes == {0, 5, 9}
LaEntries == [away : {0, 1}, timestamp : LaTimes]
LaLogs == UNION {[1..k -> LaEntries] : k \in 0..MaxLaLen}

LookAwayInit ==
  /\ la_log = <<>>
  /\ la_result = 0
  /\ la_done = FALSE

LookAwayCall ==
  /\ ~la_done
  /\ la_result' = GetLookAwayTime(la_log)
  /\ la_done' = TRUE
  /\ UNCHANGED <<now, la_log, blinkVars, lightVars, distanceVars,
                 directionVars, snapVars, zoomVars, running,
                 streamVars, appVars>>

\* --------------------------------------------------------- ZoomController
ZoomMaxTime == StartTime + ZoomHorizon
ZoomSteps == {0, 190, 200, 3000}
ZoomEars == {22, 23, 28, 29}

ZoomInit ==
  /\ adjusted = FALSE
  /\ squint_start_time = NONE
  /\ squint_hold_start = NONE
  /\ running = TRUE
  /\ tick_calls = <<>>
  /\ actuator_log = <<>>
  /\ zoom_ear = 0
  /\ below_since = NONE
  /\ zoom_in_time = NONE

NextSquintStartNoReset(ear, squint_start, current_time) ==
  IF squint_start = NONE /\ ear < EAR_ZOOM_IN_THRES THEN current_time
  ELSE squint_start

\* Lines 330-332 and 337-338: the squint timer after the tick.
NextSquintStart(ear, squint_start, current_time) ==
  IF ear < EAR_ZOOM_IN_THRES
  THEN IF squint_start = NONE THEN current_time ELSE squint_start
  ELSE NONE

ZoomInDueIgnoringAdjusted(ear, squint_start, adj, current_time) ==
  /\ ear < EAR_ZOOM_IN_THRES
  /\ squint_start # NONE
  /\ current_time - squint_start >= squint_required_duration

\* Lines 330-333: the tick reaches screen_controller.scale().
ZoomInDue(ear, squint_start, adj, current_time) ==
  /\ ear < EAR_ZOOM_IN_THRES
  /\ squint_start # NONE
  /\ ~adj
  /\ current_time - squint_start >= squint_required_duration

ZoomOutDueWithoutHold(ear, adj, hold_start, current_time) ==
  /\ adj
  /\ hold_start # NONE
  /\ ear > EAR_ZOOM_OUT_THRES

\* Lines 340-342: the tick reaches screen_controller.reset().
ZoomOutDue(ear, adj, hold_start, current_time) ==
  /\ adj
  /\ hold_start # NONE
  /\ current_time - hold_start >= hold_duration
  /\ ear > EAR_ZOOM_OUT_THRES

HoldKeptAfterZoomOut(zoom_out, hold_start) == hold_start

\* Line 345: a zoom-out unsets the hold-start.
HoldAfterZoomOut(zoom_out, hold_start) ==
  IF zoom_out THEN NONE ELSE hold_start

\* ZoomController.apply, with every time.time() of the call read as now'.
\* scale_ok and reset_ok say whether the pyautogui hotkey call returns; when
\* it raises, apply is left at that line and the exception reaches the
\* caller. The result is TRUE when apply returned.
ZoomBody(ear, scale_ok, reset_ok) ==
  LET current_time == now'
      zoom_in == ZoomInDue(ear, squint_start_time, adjusted, current_time)
      adjusted_1 == adjusted \/ zoom_in
      hold_1 == IF zoom_in THEN current_time ELSE squint_hold_start
      zoom_out == ZoomOutDue(ear, adjusted_1, hold_1, current_time)
      in_calls == IF zoom_in THEN <<"scale">> ELSE <<>>
  IN  /\ zoom_ear' = ear
      /\ below_since' = IF ear < EAR_ZOOM_IN_THRES
                        THEN IF below_since = NONE THEN current_time
                             ELSE below_since
                        ELSE NONE
      /\ zoom_in_time' = IF zoom_in THEN current_time ELSE zoom_in_time
      /\ IF zoom_in /\ ~scale_ok
         THEN /\ tick_calls' = in_calls
              /\ UNCHANGED <<adjusted, squint_start_time, squint_hold_start>>
         ELSE /\ squint_start_time' =
                   NextSquintStart(ear, squint_start_time, current_time)
              /\ IF zoom_out /\ ~reset_ok
                 THEN /\ tick_calls' = in_calls \o <<"reset">>
                      /\ adjusted' = adjusted_1
                      /\ squint_hold_start' = hold_1
                 ELSE /\ tick_calls' =
                           in_calls \o (IF zoom_out THEN <<"reset">> ELSE <<>>)
                      /\ adjusted' = (adjusted_1 /\ ~zoom_out)
                      /\ squint_hold_start' =
                           HoldAfterZoomOut(zoom_out, hold_1)
      /\ actuator_log' = actuator_log \o tick_calls'

ZoomRaises(ear, scale_ok, reset_ok) ==
  LET zoom_in == ZoomInDue(ear, squint_start_time, adjusted, now')
  IN  \/ zoom_in /\ ~scale_ok
      \/ /\ ZoomOutDue(ear, adjusted \/ zoom_in,
                       IF zoom_in THEN now' ELSE squint_hold_start, now')
         /\ ~reset_ok

\* The call of stream.py line 157: nothing around it catches an exception,
\* so a raising actuator ends the loop.
ZoomApply(ear, scale_ok, reset_ok, d) ==
  /\ running
  /\ now + d <= ZoomMaxTime
  /\ now' = now + d
  /\ ZoomBody(ear, scale_ok, reset_ok)
  /\ running' = ~ZoomRaises(ear, scale_ok, reset_ok)
  /\ UNCHANGED <<blinkVars, lightVars, distanceVars, directionVars,
                 lookAwayVars, snapVars, streamVars, appVars>>

\* --------------------------------------------------------------- snap()
\* A returned dict holds the list object of the tracker, not a copy: the
\* field is the name of that object, and reading through it gives the
\* object's present content.
SELF_CHANGES == "DirectionTracker.changes"
SELF_STATE_CHANGES == "AmbientLightTracker.state_changes"

Reach(ref) ==
  IF ref = SELF_CHANGES THEN direction_changes ELSE state_changes

NoDirSnap ==
  [taken |-> FALSE, current_direction |-> NoState,
   direction_changes |-> SELF_CHANGES, total_look_away_time |-> 0,
   continuous_look_time |-> 0, returned |-> <<>>]

NoLightSnap ==
  [taken |-> FALSE, current_state |-> "light",
   state_changes |-> SELF_STATE_CHANGES, dark_start_time |-> NONE,
   returned |-> <<>>]

SnapInit ==
  /\ dir_snap = NoDirSnap
  /\ light_snap = NoLightSnap

\* The scan of reversed(self.changes) for the last entry with away == 1.
RECURSIVE LastLookAway(_, _)
LastLookAway(changes, i) ==
  IF i = 0 THEN NONE
  ELSE IF changes[i].away = 1 THEN changes[i].timestamp
  ELSE LastLookAway(changes, i - 1)

\* DirectionTracker.calculate_continuous_look_time
ContinuousLookTime(changes, current_time) ==
  IF changes = <<>> THEN 0
  ELSE LET found == LastLookAway(changes, Len(changes))
           last_look_away_time == IF found = NONE THEN changes[1].timestamp
                                  ELSE found
       IN  current_time - last_look_away_time

\* The dict built by DirectionTracker.snap; `returned` keeps the content of
\* the list as it was when the dict was returned.
DirSnapOf(changes, direction, current_time) ==
  [taken |-> TRUE,
   current_direction |-> direction,
   direction_changes |-> SELF_CHANGES,
   total_look_away_time |-> GetLookAwayTime(changes),
   continuous_look_time |-> ContinuousLookTime(changes, current_time),
   returned |-> changes]

\* The dict built by AmbientLightTracker.snap.
LightSnapOf(light_data, changes, dark_start) ==
  [taken |-> TRUE,
   current_state |-> light_data.ambient_light,
   state_changes |-> SELF_STATE_CHANGES,
   dark_start_time |-> dark_start,
   returned |-> changes]

\* DirectionTracker.snap
DirectionSnap(d) ==
  /\ now + d <= DirMaxTime
  /\ now' = now + d
  /\ dir_snap' = DirSnapOf(direction_changes, last_known_direction, now')
  /\ UNCHANGED <<blinkVars, lightVars, distanceVars, directionVars,
                 lookAwayVars, light_snap, zoomVars, running,
                 streamVars, appVars>>

\* AmbientLightTracker.snap
LightSnap ==
  /\ light_snap' = LightSnapOf(data, state_changes, dark_start_time)
  /\ UNCHANGED <<now, blinkVars, lightVars, distanceVars, directionVars,
                 lookAwayVars, dir_snap, zoomVars, running,
                 streamVars, appVars>>

\* ------------------------------------------------- main loop of stream.py
Kinds == {"low_light", "too_close", "eye_break"}
FACE_LANDMARKS == 478
UTILS_ZOOM_IN_THRESHOLD == 19
DEBOUNCE_TIME == 50
DIRECTION_PIXELS == 20
RATE_AFTER == 6000
LOW_LIGHT_DWELL == 300
DISTANCE_DWELL == 200
LOOK_AWAY_DWELL == 1500
LOW_BLINK_SESSION == 12000
LOW_BLINK_RATE == 1200
SQUINT_DWELL == 200
StreamSteps == {200, 6100}
StreamFrames == {80, 96}
StreamEars == {19, 29}
StreamIris == {349, 401}
StreamOffsets == {-31, 0}

StreamInit ==
  /\ ticks = 0
  /\ failed = "none"
  /\ notified = {}
  /\ last_notified = [k \in Kinds |-> NONE]

\* Lines 185, 191 and 197: the warnings the iteration has to show.
DueKinds(brightness, distance_cm, direction_stats) ==
  {k \in Kinds :
     \/ k = "low_light" /\ brightness < BRIGHTNESS_THRESHOLD
     \/ k = "too_close" /\ Truthy(distance_cm)
                        /\ distance_cm < DISTANCE_CLOSE_THRESHOLD
     \/ k = "eye_break" /\ direction_stats.continuous_look_time
                            > MAX_CONTINUOUS_FOCUS}

\* The first of them in the order of the code.
FirstKind(due) ==
  IF "low_light" \in due THEN {"low_light"}
  ELSE IF "too_close" \in due THEN {"too_close"}
  ELSE due

\* Lines 173-203: the snapshots, then one show_notification call per due
\* warning. The calls are not guarded: when the notifier raises
\* (notify_ok = FALSE) the exception leaves the loop at the first call.
\* blink_tracker.snap() and distance_tracker.snap() only feed the display.
SnapAndWarn(distance_cm, notify_ok) ==
  /\ dir_snap' = DirSnapOf(direction_changes', last_known_direction', now')
  /\ light_snap' = LightSnapOf(data', state_changes', dark_start_time')
  /\ LET due == DueKinds(light_ret', distance_cm, dir_snap')
         sent == IF notify_ok THEN due ELSE FirstKind(due)
     IN  /\ notified' = sent
         /\ last_notified' = [k \in Kinds |-> IF k \in sent THEN now'
                                               ELSE last_notified[k]]
         /\ failed' = IF due # {} /\ ~notify_ok THEN "notifier" ELSE "none"
         /\ running' = (due = {} \/ notify_ok)

\* One iteration of the while loop, lines 117-207. face says whether a face
\* was detected (line 147); act_ok and notify_ok say whether the actuator
\* and the notifier return or raise in this iteration.
Tick(frame, face, ear, iris, offset, act_ok, notify_ok, d) ==
  /\ running
  /\ ticks < MaxTicks
  /\ ticks' = ticks + 1
  /\ now' = now + d
  /\ UNCHANGED <<lookAwayVars, appVars>>
  /\ LightBody(frame, TRUE)
  /\ IF ~face
     THEN /\ UNCHANGED <<zoomVars, blinkVars, distanceVars, directionVars>>
          /\ SnapAndWarn(NONE, notify_ok)
     ELSE /\ ZoomBody(ear, act_ok, act_ok)
          /\ IF ZoomRaises(ear, act_ok, act_ok)
             THEN /\ failed' = "actuator"
                  /\ running' = FALSE
                  /\ UNCHANGED <<blinkVars, distanceVars, directionVars,
                                 snapVars, notified, last_notified>>
             ELSE /\ BlinkBody(FACE_LANDMARKS, ear)
                  /\ DistanceBody(FACE_LANDMARKS, TRUE, iris)
                  /\ DirectionBody(FACE_LANDMARKS, offset)
                  /\ SnapAndWarn(dist_ret', notify_ok)

\* ---------------------------------------------------- NotificationManager
\* The keys of the warnings dict of show_eye_health_warning.
WarningTypes == {"low_light", "too_close", "too_far", "look_away",
                 "low_blink", "squinting"}
\* What callers pass as warning_type: those and a name that is no key.
RequestTypes == WarningTypes \cup {"other"}
\* A details string is its fixed text and the number formatted into it.
NoDetails == <<"", 0>>
Details == {<<"Test details", 0>>}
\* A dict key is a string (a warning type) or an int (a message hash).
\* The message built at lines 328-333 is a function of the type and the
\* details; hash(message) is taken to tell different messages apart.
MessageOf(warning_type, details) == <<"hash", warning_type, details>>
TypeKey(warning_type) == <<"str", warning_type, NoDetails>>
NotifySteps == {0, 200, 300}
NotifyMaxTime == StartTime + NotifyHorizon
NoRequest == [warning_type |-> "none", details |-> NoDetails,
              displayed |-> FALSE]

NotifyInit ==
  /\ notification_cooldowns = <<>>
  /\ active_notifications = 0
  /\ last_shown = [w \in WarningTypes |-> NONE]
  /\ nm_request = NoRequest

\* The manager's fields as one value.
Manager ==
  [cooldowns |-> notification_cooldowns, active |-> active_notifications,
   shown |-> last_shown, request |-> nm_request]

SetManager(nm) ==
  /\ notification_cooldowns' = nm.cooldowns
  /\ active_notifications' = nm.active
  /\ last_shown' = nm.shown
  /\ nm_request' = nm.request

\* dict[key] = value
Put(dict, key, value) ==
  [k \in DOMAIN dict \cup {key} |-> IF k = key THEN value ELSE dict[k]]

CooldownKeyShared(warning_type) == TypeKey("other")

\* Line 312: the key under which a warning type keeps its cooldown.
CooldownKey(warning_type) == TypeKey(warning_type)

\* Lines 274-277 and 312-315: the key is in the dict and its time is less
\* than cooldown_duration ago.
Blocked(cooldowns, key, current_time) ==
  /\ key \in DOMAIN cooldowns
  /\ current_time - cooldowns[key] < cooldown_duration

\* show_notification(message) at current_time: the cooldowns after it and
\* whether the widget was shown.
ShowNotification(cooldowns, message, current_time) ==
  IF Blocked(cooldowns, message, current_time)
  THEN [cooldowns |-> cooldowns, displayed |-> FALSE]
  ELSE [cooldowns |-> Put(cooldowns, message, current_time),
        displayed |-> TRUE]

\* show_eye_health_warning(warning_type, details) at current_time, with
\* the show_notification call it makes.
Warn(nm, warning_type, details, current_time) ==
  IF Blocked(nm.cooldowns, CooldownKey(warning_type), current_time)
  THEN [nm EXCEPT !.request = [warning_type |-> warning_type,
                               details |-> details, displayed |-> FALSE]]
  ELSE IF warning_type \notin WarningTypes
  THEN [nm EXCEPT !.request = [warning_type |-> warning_type,
                               details |-> details, displayed |-> FALSE]]
  ELSE LET inner == ShowNotification(nm.cooldowns,
                                     MessageOf(warning_type, details),
                                     current_time)
       IN  [cooldowns |-> Put(inner.cooldowns, CooldownKey(warning_type),
                              current_time),
            active |-> IF inner.displayed THEN nm.active + 1
                       ELSE nm.active,
            shown |-> IF inner.displayed
                      THEN [nm.shown EXCEPT ![warning_type] = current_time]
                      ELSE nm.shown,
            request |-> [warning_type |-> warning_type, details |-> details,
                         displayed |-> inner.displayed]]

\* A caller's show_eye_health_warning, time.time() read as now'.
ShowEyeHealthWarning(warning_type, details, d) ==
  /\ now + d <= NotifyMaxTime
  /\ now' = now + d
  /\ SetManager(Warn(Manager, warning_type, details, now'))
  /\ UNCHANGED <<visionVars, trackVars, healthVars, utilsLightVars>>

\* ------------------------------- tray application: metrics and warnings
AppMaxTime == StartTime + AppHorizon
AppSteps == {800, 1600}
\* 0 landmarks: no face in the frame.
AppLandmarks == {0, FACE_LANDMARKS}
AppOffsets == {-21, 0, 21}
AppBrightness == {100}
AppDistances == {370}
AppEars == {25}
AppBlinkCounts == {0}

HealthInit ==
  /\ utils_direction_changes = <<>>
  /\ utils_last_known_direction = NoState
  /\ utils_last_direction_change_time = StartTime
  /\ metrics_brightness = 0
  /\ metrics_distance_cm = 0
  /\ metrics_is_squinting = FALSE
  /\ metrics_gaze_direction = "center"
  /\ metrics_look_away_time = 0
  /\ metrics_blink_rate = 0
  /\ low_light_start_time = NONE
  /\ distance_warning_start_time = NONE
  /\ squinting_start_time = NONE
  /\ pending = 0
  /\ requested = {}
  /\ processed = <<>>
  /\ withheld = {}
  /\ away_since = NONE

\* utils.detect_eye_direction, lines 410-415.
UtilsDirectionOf(eye_offset) ==
  IF eye_offset < -DIRECTION_PIXELS THEN "left"
  ELSE IF eye_offset > DIRECTION_PIXELS THEN "right"
  ELSE "center"

\* utils.calculate_look_away_time: the loop of get_look_away_time over
\* the module-level log.
CalculateLookAwayTime(changes) == GetLookAwayTime(changes)

UtilsEntry(current_direction, current_time) ==
  [away |-> IF current_direction = "center" THEN 0 ELSE 1,
   timestamp |-> current_time]

\* A start-of-condition timestamp after a tick: set on the first tick that
\* finds the condition, unset by one that does not.
StartAfter(start, holds, current_time) ==
  IF holds THEN (IF start = NONE THEN current_time ELSE start) ELSE NONE

\* One pass of the loop body of EyeTracker._track_loop on a frame that was
\* read, as far as the warnings read its results: the metrics it writes,
\* utils.detect_eye_direction and get_direction_stats, and the emission
\* of metrics_updated. time.time() is read as now'.
TrackFrame(n, brightness, distance_cm, avg_ear, eye_offset, blink_count, d) ==
  /\ tracker_running
  /\ pending < MaxPending
  /\ now + d <= AppMaxTime
  /\ now' = now + d
  /\ LET current_time == now'
         face == n > 0
         detected == face /\ n >= MIN_LANDMARKS
         current_direction == UtilsDirectionOf(eye_offset)
         direction == IF detected THEN current_direction ELSE "unknown"
         first == detected /\ utils_last_known_direction = NoState
         changed == /\ detected
                    /\ utils_last_known_direction # NoState
                    /\ current_direction # utils_last_known_direction
                    /\ current_time - utils_last_direction_change_time
                         > DEBOUNCE_TIME
         session_time == current_time - StartTime
     IN  /\ utils_direction_changes' =
              IF first \/ changed
              THEN Append(utils_direction_changes,
                          UtilsEntry(current_direction, current_time))
              ELSE utils_direction_changes
         /\ utils_last_known_direction' =
              IF first \/ changed THEN current_direction
              ELSE utils_last_known_direction
         /\ utils_last_direction_change_time' =
              IF changed THEN current_time
              ELSE utils_last_direction_change_time
         /\ metrics_brightness' = brightness
         /\ metrics_is_squinting' =
              IF face THEN avg_ear < UTILS_ZOOM_IN_THRESHOLD
              ELSE metrics_is_squinting
         /\ metrics_distance_cm' =
              IF face /\ distance_cm # 0 THEN distance_cm
              ELSE metrics_distance_cm
         /\ metrics_gaze_direction' =
              IF face THEN direction ELSE metrics_gaze_direction
         /\ metrics_look_away_time' =
              CalculateLookAwayTime(utils_direction_changes')
         /\ metrics_blink_rate' =
              IF session_time > RATE_AFTER
              THEN (blink_count * 6000 * 100) \div session_time
              ELSE metrics_blink_rate
  /\ away_since' = StartAfter(away_since, metrics_gaze_direction' # "center",
                              now')
  /\ pending' = pending + 1
  /\ UNCHANGED <<visionVars, trackVars, notifyVars, handlerVars,
                 utilsLightVars>>

\* f"{x:.1f}" and f"{x:.0f}" of a time or a length kept in hundredths or
\* tenths: the nearest unit of the last printed digit.
Rounded(x, unit) == (2 * x + unit) \div (2 * unit)

RECURSIVE WarnAll(_, _, _)
\* The show_eye_health_warning calls of one delivery, in order.
WarnAll(nm, requests, current_time) ==
  IF requests = <<>> THEN nm
  ELSE WarnAll(Warn(nm, Head(requests).warning_type,
                    Head(requests).details, current_time),
               Tail(requests), current_time)

Request(warning_type, text, number) ==
  <<[warning_type |-> warning_type, details |-> <<text, number>>]>>

SustainedAtOnce(start, dwell, current_time) == start # NONE

\* The elif of lines 806, 819, 825 and 848.
Sustained(start, dwell, current_time) ==
  /\ start # NONE
  /\ current_time - start > dwell

\* Line 832.
LookAwayDue ==
  /\ metrics_gaze_direction # "center"
  /\ metrics_look_away_time > LOOK_AWAY_DWELL

\* The conditions of lines 803, 815-822 and 845 on the metrics object.
IsLowLight == metrics_brightness < BRIGHTNESS_THRESHOLD
IsMeasured == metrics_distance_cm > 0
IsClose == IsMeasured /\ metrics_distance_cm < DISTANCE_CLOSE_THRESHOLD
IsFar == IsMeasured /\ ~IsClose
           /\ metrics_distance_cm > DISTANCE_FAR_THRESHOLD

\* The show_eye_health_warning calls that lines 800-852 make at
\* current_time, in order.
DueRequests(current_time) ==
  (IF IsLowLight /\ Sustained(low_light_start_time, LOW_LIGHT_DWELL,
                              current_time)
   THEN Request("low_light", "Current brightness", metrics_brightness)
   ELSE <<>>)
  \o (IF (IsClose \/ IsFar)
          /\ Sustained(distance_warning_start_time, DISTANCE_DWELL,
                       current_time)
      THEN Request(IF IsClose THEN "too_close" ELSE "too_far",
                   "Distance", Rounded(metrics_distance_cm, 10))
      ELSE <<>>)
  \o (IF LookAwayDue
      THEN Request("look_away", "Looking away for",
                   Rounded(metrics_look_away_time, 10))
      ELSE <<>>)
  \o (IF current_time - StartTime > LOW_BLINK_SESSION
          /\ metrics_blink_rate < LOW_BLINK_RATE
      THEN Request("low_blink", "Current rate",
                   Rounded(metrics_blink_rate, 10))
      ELSE <<>>)
  \o (IF metrics_is_squinting
          /\ Sustained(squinting_start_time, SQUINT_DWELL, current_time)
      THEN Request("squinting", "EAR", 0)
      ELSE <<>>)

KindsOf(requests) == {requests[i].warning_type : i \in 1..Len(requests)}

PausedNever(tracking) == FALSE

\* Line 794: if not self.is_tracking: return.
Paused(tracking) == ~tracking

\* EyeTuneApp.handle_eye_health_notifications, run by the main thread for
\* one emitted metrics_updated; it reads the metrics object as it is then.
HandleEyeHealthNotifications ==
  /\ pending > 0
  /\ pending' = pending - 1
  /\ IF Paused(is_tracking)
     THEN /\ requested' = {}
          /\ withheld' = KindsOf(DueRequests(now))
          /\ UNCHANGED <<notifyVars, low_light_start_time,
                         distance_warning_start_time, squinting_start_time,
                         processed>>
     ELSE LET current_time == now
              requests == DueRequests(current_time)
          IN  /\ low_light_start_time' =
                   StartAfter(low_light_start_time, IsLowLight, current_time)
              /\ distance_warning_start_time' =
                   IF IsMeasured
                   THEN StartAfter(distance_warning_start_time,
                                   IsClose \/ IsFar, current_time)
                   ELSE distance_warning_start_time
              /\ squinting_start_time' =
                   StartAfter(squinting_start_time, metrics_is_squinting,
                              current_time)
              /\ requested' = KindsOf(requests)
              /\ withheld' = {}
              /\ processed' =
                   Append(processed,
                          [time |-> current_time, low_light |-> IsLowLight,
                           out_of_band |-> IsClose \/ IsFar,
                           squinting |-> metrics_is_squinting])
              /\ SetManager(WarnAll(Manager, requests, current_time))
  /\ UNCHANGED <<now, visionVars, trackVars, utilsDirVars, metricsVars,
                 away_since, utilsLightVars>>

\* ------------------------------------ utils.py: process_ambient_light
UtilsLightMaxTime == StartTime + UtilsLightHorizon
UtilsLightSteps == {0, 1500, 3001}
\* BRIGHTNESS_THRESHOLD - 1 and + 1, and the bounds AmbientLightTracker
\* switches at.
UtilsFrames == {BAD_FRAME, 84, 89, 90, 91, 95}

UtilsLightInit ==
  /\ ambient_light_data = [ambient_light |-> "light", timestamp |-> NONE]
  /\ last_known_light_state = NoState
  /\ light_state_changes = <<>>
  /\ dark_environment_start_time = NONE
  /\ utils_last_color_adjust_time = 0
  /\ utils_threads_started = 0
  /\ utils_light_ret = 0

\* Line 246: one comparison against BRIGHTNESS_THRESHOLD.
UtilsClassify(brightness) ==
  IF brightness >= BRIGHTNESS_THRESHOLD THEN "light" ELSE "dark"

\* utils.process_ambient_light, time.time() read as now'. cvtColor raises
\* on BAD_FRAME; start_ok says whether Thread.start() returns.
ProcessAmbientLight(frame, start_ok, d) ==
  /\ now + d <= UtilsLightMaxTime
  /\ now' = now + d
  /\ UNCHANGED <<visionVars, trackVars, notifyVars, healthVars>>
  /\ IF frame = BAD_FRAME
     THEN /\ utils_light_ret' = 0
          /\ UNCHANGED <<ambient_light_data, last_known_light_state,
                         light_state_changes, dark_environment_start_time,
                         utils_last_color_adjust_time,
                         utils_threads_started>>
     ELSE LET current_time == now'
              brightness == frame
              current_state == UtilsClassify(brightness)
              logs == \/ last_known_light_state = NoState
                      \/ current_state # last_known_light_state
              entry == [ambient_light |-> current_state,
                        timestamp |-> current_time]
              due == current_time - utils_last_color_adjust_time
                       > COLOR_ADJUST_INTERVAL
          IN  /\ Len(light_state_changes) < MaxLog \/ ~logs
              /\ dark_environment_start_time' =
                   IF current_state = "dark"
                   THEN (IF dark_environment_start_time = NONE
                         THEN current_time
                         ELSE dark_environment_start_time)
                   ELSE NONE
              /\ ambient_light_data' = IF logs THEN entry
                                       ELSE ambient_light_data
              /\ last_known_light_state' = current_state
              /\ light_state_changes' =
                   IF logs THEN Append(light_state_changes, entry)
                   ELSE light_state_changes
              /\ utils_threads_started' =
                   IF due /\ start_ok THEN utils_threads_started + 1
                   ELSE utils_threads_started
              /\ utils_last_color_adjust_time' =
                   IF due /\ start_ok THEN current_time
                   ELSE utils_last_color_adjust_time
              /\ utils_light_ret' = brightness

\* ------------------------------------------ EyeTracker and its threads
Threads == 1..MaxThreads

\* EyeTuneApp.__init__ ends with toggle_tracking(): tracking is on and the
\* first thread has been started.
TrackInit ==
  /\ is_tracking = TRUE
  /\ tracker_running = TRUE
  /\ started = 1
  /\ thread_pc = [t \in Threads |-> IF t = 1 THEN "begin" ELSE "unborn"]
  /\ cap_state = "absent"

AppInit ==
  /\ TrackInit
  /\ NotifyInit
  /\ HealthInit
  /\ UtilsLightInit

\* EyeTracker.start_tracking: the flag, then a new daemon thread.
StartTracking ==
  /\ started < MaxThreads
  /\ tracker_running' = TRUE
  /\ started' = started + 1
  /\ thread_pc' = [thread_pc EXCEPT ![started + 1] = "begin"]
  /\ UNCHANGED cap_state

\* EyeTracker.stop_tracking: the flag, then cap.release() if there is a cap.
\* The thread is not joined.
StopTracking ==
  /\ tracker_running' = FALSE
  /\ cap_state' = IF cap_state = "absent" THEN "absent" ELSE "released"
  /\ UNCHANGED <<started, thread_pc>>

\* EyeTuneApp.toggle_tracking, run on the GUI thread.
ToggleTracking ==
  /\ IF is_tracking
     THEN StopTracking /\ is_tracking' = FALSE
     ELSE StartTracking /\ is_tracking' = TRUE
  /\ UNCHANGED <<now, visionVars, notifyVars, healthVars, utilsLightVars>>

LoopContinuesAlways(flag) == TRUE

\* Line 437: while self.running.
LoopContinues(flag) == flag

\* One step of a thread running EyeTracker._track_loop. ret is the result
\* of cap.read(), raises says whether the step raises an exception, which
\* the handler around the whole loop catches.
ThreadStep(t, ret, raises) ==
  /\ thread_pc[t] \notin {"unborn", "done"}
  /\ UNCHANGED <<now, visionVars, notifyVars, healthVars, utilsLightVars,
                 is_tracking, tracker_running, started>>
  /\ CASE thread_pc[t] = "begin" ->
            \* self.cap = cv2.VideoCapture(1)
            /\ cap_state' = "open"
            /\ thread_pc' = [thread_pc EXCEPT ![t] = "check"]
       [] thread_pc[t] = "check" ->
            /\ thread_pc' = [thread_pc EXCEPT
                               ![t] = IF LoopContinues(tracker_running)
                                      THEN "read" ELSE "finally"]
            /\ UNCHANGED cap_state
       [] thread_pc[t] = "read" ->
            \* ret, img = self.cap.read(); a released capture gives no frame
            /\ thread_pc' = [thread_pc EXCEPT
                               ![t] = IF ret /\ cap_state = "open"
                                      THEN "update" ELSE "check"]
            /\ UNCHANGED cap_state
       [] thread_pc[t] = "update" ->
            \* lines 446-524: the trackers are updated
            /\ thread_pc' = [thread_pc EXCEPT
                               ![t] = IF raises THEN "finally" ELSE "sleep"]
            /\ UNCHANGED cap_state
       [] thread_pc[t] = "sleep" ->
            \* time.sleep(0.1)
            /\ thread_pc' = [thread_pc EXCEPT ![t] = "check"]
            /\ UNCHANGED cap_state
       [] thread_pc[t] = "finally" ->
            \* if hasattr(self, 'cap'): self.cap.release()
            /\ cap_state' = IF cap_state = "absent" THEN "absent"
                            ELSE "released"
            /\ thread_pc' = [thread_pc EXCEPT ![t] = "done"]

Init ==
  /\ now = StartTime
  /\ BlinkInit
  /\ LightInit
  /\ DistanceInit
  /\ DirectionInit
  /\ LookAwayInit
  /\ SnapInit
  /\ ZoomInit
  /\ StreamInit
  /\ AppInit

\* A tracker whose log is any log of at most MaxLaLen entries.
InitLookAway ==
  /\ now = StartTime
  /\ BlinkInit
  /\ LightInit
  /\ DistanceInit
  /\ DirectionInit
  /\ SnapInit
  /\ ZoomInit
  /\ StreamInit
  /\ AppInit
  /\ la_log \in LaLogs
  /\ la_result = 0
  /\ la_done = FALSE

SpecLookAway == InitLookAway /\ [][LookAwayCall]_vars

LightNext ==
  \E frame \in Frames, start_ok \in BOOLEAN, d \in LightSteps :
     LightProcess(frame, start_ok, d)

SpecLight == Init /\ [][LightNext]_vars

DistanceNext ==
  \E n \in DistLandmarkCounts, frame_ok \in BOOLEAN, iris \in IrisInputs,
     d \in DistSteps :
     DistanceMeasure(n, frame_ok, iris, d)

SpecDistance == Init /\ [][DistanceNext]_vars

DirectionNext ==
  \/ \E n \in {399, 478}, offset \in Offsets, d \in DirSteps :
        DirectionDetect(n, offset, d)
  \/ \E d \in DirSteps : DirectionReset(d)

SpecDirection == Init /\ [][DirectionNext]_vars

ZoomNext ==
  \E ear \in ZoomEars, act_ok \in BOOLEAN, d \in ZoomSteps :
     ZoomApply(ear, act_ok, act_ok, d)

SpecZoom == Init /\ [][ZoomNext]_vars

StreamNext ==
  \E frame \in StreamFrames, face \in BOOLEAN, ear \in StreamEars,
     iris \in StreamIris, offset \in StreamOffsets,
     act_ok \in BOOLEAN, notify_ok \in BOOLEAN, d \in StreamSteps :
     Tick(frame, face, ear, iris, offset, act_ok, notify_ok, d)

SpecStream == Init /\ [][StreamNext]_vars

\* The light tracker together with the threads it starts.
ColorFrames == {BAD_FRAME, 80, 96}

ColorNext ==
  \/ \E frame \in ColorFrames, start_ok \in BOOLEAN, d \in LightSteps :
        LightProcess(frame, start_ok, d)
  \/ \E ok \in BOOLEAN : TaskEnds(ok)

SpecColor == Init /\ [][ColorNext]_vars

NotifyNext ==
  \E warning_type \in RequestTypes, details \in Details,
     d \in NotifySteps :
     ShowEyeHealthWarning(warning_type, details, d)

SpecNotify == Init /\ [][NotifyNext]_vars

\* The three trackers that take landmarks, called in any order.
FewOrAll == {399, 467, 478}
LmSteps == {0, 30}
LmEars == {15}
LmIris == {349}
LmOffsets == {-31}

LandmarkNext ==
  \/ \E n \in FewOrAll, ear \in LmEars, d \in LmSteps :
        BlinkDetect(n, ear, d)
  \/ \E n \in FewOrAll, iris \in LmIris, d \in LmSteps :
        DistanceMeasure(n, TRUE, iris, d)
  \/ \E n \in FewOrAll, offset \in LmOffsets, d \in LmSteps :
        DirectionDetect(n, offset, d)

SpecLandmarks == Init /\ [][LandmarkNext]_vars

TrackNext ==
  \/ ToggleTracking
  \/ \E t \in Threads, ret \in BOOLEAN, raises \in BOOLEAN :
        ThreadStep(t, ret, raises)

SpecTrack == Init /\ [][TrackNext]_vars

\* Frames processed by the tracking thread and their deliveries to the
\* main thread.
AppNext ==
  \/ \E n \in AppLandmarks, brightness \in AppBrightness,
        distance_cm \in AppDistances, avg_ear \in AppEars,
        eye_offset \in AppOffsets, blink_count \in AppBlinkCounts,
        d \in AppSteps :
        TrackFrame(n, brightness, distance_cm, avg_ear, eye_offset,
                   blink_count, d)
  \/ HandleEyeHealthNotifications

SpecApp == Init /\ [][AppNext]_vars

UtilsLightNext ==
  \E frame \in UtilsFrames, start_ok \in BOOLEAN, d \in UtilsLightSteps :
     ProcessAmbientLight(frame, start_ok, d)

SpecUtilsLight == Init /\ [][UtilsLightNext]_vars

\* Frames whose brightness, distance and EAR start and end the low-light,
\* distance and squint conditions, and their deliveries.
HealthMaxTime == StartTime + HealthHorizon
HealthSteps == {100, 200}
\* brightness, distance in tenths of a cm, EAR in hundredths
HealthFrames == {<<100, 370, 25>>, <<80, 370, 25>>, <<100, 300, 25>>,
                 <<100, 450, 25>>, <<100, 370, 15>>, <<80, 300, 15>>}

HealthNext ==
  \/ \E n \in AppLandmarks, f \in HealthFrames, d \in HealthSteps :
        /\ now + d <= HealthMaxTime
        /\ TrackFrame(n, f[1], f[2], f[3], 0, 0, d)
  \/ HandleEyeHealthNotifications

SpecHealth == Init /\ [][HealthNext]_vars

\* The same with the user pausing and resuming, on frames that are quiet
\* or have all three conditions.
PauseFrames == {<<100, 370, 25>>, <<80, 300, 15>>}

PauseNext ==
  \/ \E f \in PauseFrames, d \in HealthSteps :
        /\ now + d <= HealthMaxTime
        /\ TrackFrame(FACE_LANDMARKS, f[1], f[2], f[3], 0, 0, d)
  \/ HandleEyeHealthNotifications
  \/ ToggleTracking

SpecPause == Init /\ [][PauseNext]_vars

\* The scheduler runs every thread that can take a step, and cap.read()
\* delivers frames while the capture is open.
SpecTrackLive ==
  /\ Init
  /\ [][TrackNext]_vars
  /\ \A t \in Threads : WF_vars(\E raises \in BOOLEAN :
                                   ThreadStep(t, TRUE, raises))

\* The trackers used together with their snap() methods.
SnapSteps == {0, 60}
SnapOffsets == {-31, 0}
SnapFrames == {80, 96}

SnapNext ==
  \/ \E offset \in SnapOffsets, d \in SnapSteps :
        DirectionDetect(478, offset, d)
  \/ \E d \in SnapSteps : DirectionReset(d)
  \/ \E d \in SnapSteps : DirectionSnap(d)
  \/ \E frame \in SnapFrames : LightProcess(frame, TRUE, 0)
  \/ LightSnap

SpecSnap == Init /\ [][SnapNext]_vars

BlinkNext ==
  \E n \in LandmarkCounts, ear \in EarValues, d \in Steps :
     BlinkDetect(n, ear, d)

SpecBlink == Init /\ [][BlinkNext]_vars

\* A blink tracker that has counted k blinks HistoryGap apart, the last one
\* HistoryGap before now.
BlinkHistoryOf(k) == [i \in 1..k |-> StartTime - HistoryGap * (k - i + 1)]

InitBlinkHistory ==
  /\ now = StartTime
  /\ \E k \in {MAX_BLINK_HISTORY - 1, MAX_BLINK_HISTORY} :
        /\ counter = k
        /\ recent_times = BlinkHistoryOf(k)
        /\ blink_ret = [is_blinking |-> FALSE, avg_ear |-> 25,
                        blink_counter |-> k]
  /\ is_currently_blinking = FALSE
  /\ last_blink_time = StartTime - HistoryGap
  /\ edge_time = NONE
  /\ edge_counter = 0
  /\ edge_last = NONE
  /\ blink_rate = ZeroRate
  /\ LightInit
  /\ DistanceInit
  /\ DirectionInit
  /\ LookAwayInit
  /\ SnapInit
  /\ ZoomInit
  /\ StreamInit
  /\ AppInit

SpecBlinkHistory == InitBlinkHistory /\ [][BlinkNext]_vars

\* Blink trackers whose history holds up to MaxRateLen blinks counted at
\* some of these times before now; blinks are never closer than the
\* refractory time.
RateTimes == {StartTime - 3000, StartTime - 1000, StartTime - 500,
              StartTime - 87, StartTime - 60, StartTime - 27}
RateHistories ==
  {h \in UNION {[1..k -> RateTimes] : k \in 0..MaxRateLen} :
     \A i \in 1..(Len(h) - 1) : h[i + 1] - h[i] >= REFRACTORY_SEC}

InitBlinkRate ==
  /\ now = StartTime
  /\ recent_times \in RateHistories
  /\ counter = Len(recent_times)
  /\ blink_ret = [is_blinking |-> FALSE, avg_ear |-> 25,
                  blink_counter |-> counter]
  /\ is_currently_blinking = FALSE
  /\ last_blink_time = IF recent_times = <<>> THEN StartTime
                       ELSE recent_times[Len(recent_times)]
  /\ edge_time = NONE
  /\ edge_counter = 0
  /\ edge_last = NONE
  /\ blink_rate = ZeroRate
  /\ LightInit
  /\ DistanceInit
  /\ DirectionInit
  /\ LookAwayInit
  /\ SnapInit
  /\ ZoomInit
  /\ StreamInit
  /\ AppInit

RateSteps == {0, 27}
RateEars == {15, 25}

BlinkRateNext ==
  \/ \E ear \in RateEars, d \in RateSteps :
        BlinkDetect(FACE_LANDMARKS, ear, d)
  \/ CalculateBlinkRate

SpecBlinkRate == InitBlinkRate /\ [][BlinkRateNext]_vars

\* ================================================================ claims
Last(q) == q[Len(q)]

\* ------------------------------------------------------------------- C1
\* C1: the blink counter moves (and the history gets a timestamp) only on
\* a tick whose EAR is below the blink threshold, whose previous
\* is_currently_blinking flag was false and for which
\* now - last_blink_time >= 0.27 s; it then moves by exactly one and the
\* appended timestamp is the tick's time.  Consecutive timestamps of the
\* history are therefore at least 0.27 s apart.
C1_CountOnlyOnAcceptedEdge ==
  /\ [][ (counter' # counter \/ recent_times' # recent_times) =>
           /\ counter' = counter + 1
           /\ recent_times' # <<>> /\ Last(recent_times') = now'
           /\ blink_ret'.is_blinking /\ blink_ret'.avg_ear < EAR_BLINK_THRES
           /\ ~is_currently_blinking
           /\ now' - last_blink_time >= REFRACTORY_SEC ]_vars
  /\ [](\A i \in 1..(Len(recent_times) - 1) :
           recent_times[i + 1] - recent_times[i] >= REFRACTORY_SEC)

C1_Witness ==
  /\ Len(recent_times) >= 2
  /\ recent_times[2] - recent_times[1] = REFRACTORY_SEC
  /\ counter = 2

\* ------------------------------------------------------------------- C2
\* A step that is the second of two false->true edges 0.1 s apart (the flag
\* is false before it, so a recovery tick lies between the two edges).
SecondDip == /\ ~is_currently_blinking /\ is_currently_blinking'
             /\ edge_time # NONE /\ now' - edge_time = 10

\* C2 as stated: two dips whose edges are 0.1 s apart count exactly one
\* blink, wherever they occur in the life of the tracker.
C2_ExactlyOneAlways ==
  [][SecondDip => counter' = edge_counter + 1]_vars

\* C2 as amended: the two dips count at most one blink; exactly one when
\* the first edge comes at least 0.17 s after last_blink_time (the last
\* accepted blink, or the construction time of a new tracker), none when
\* it comes earlier.
C2_AtMostOne ==
  [][SecondDip =>
       counter' = edge_counter +
         (IF edge_time - edge_last >= REFRACTORY_SEC - 10 THEN 1 ELSE 0)
    ]_vars

C2_Witness ==
  /\ is_currently_blinking
  /\ edge_time - last_blink_time = 10
  /\ counter = edge_counter
  /\ counter = 1

\* ------------------------------------------------------------------- C3
\* C3: data["ambient_light"] goes from light to dark only on a tick with
\* brightness < THRESHOLD - 5 and from dark to light only on a tick with
\* brightness >= THRESHOLD + 5; on every other tick it is unchanged.
C3_HysteresisTransitions ==
  [][ LET b == light_ret'
          darkens == data.ambient_light = "light" /\ b < BRIGHTNESS_THRESHOLD - 5
          lightens == data.ambient_light = "dark" /\ b >= BRIGHTNESS_THRESHOLD + 5
      IN  /\ (data.ambient_light = "light" /\ data'.ambient_light = "dark")
                => darkens
          /\ (data.ambient_light = "dark" /\ data'.ambient_light = "light")
                => lightens
          /\ (~darkens /\ ~lightens)
                => data'.ambient_light = data.ambient_light ]_vars

C3_Witness ==
  /\ Len(state_changes) = 3
  /\ state_changes[2].ambient_light = "dark"
  /\ state_changes[3].ambient_light = "light"
  /\ light_ret = BRIGHTNESS_THRESHOLD + 5

\* ------------------------------------------------------------------- C4
InBand(b) == BRIGHTNESS_THRESHOLD - 5 < b /\ b < BRIGHTNESS_THRESHOLD + 5

\* C4: once the tracker has settled (a first frame has been processed), a
\* tick whose brightness lies strictly between THRESHOLD - 5 and
\* THRESHOLD + 5 leaves the light state unchanged and appends nothing to
\* the transition log.
C4_NoChatterInBand ==
  [][ (light_last_known_state # NoState /\ InBand(light_ret')) =>
        /\ data' = data
        /\ light_last_known_state' = light_last_known_state
        /\ state_changes' = state_changes ]_vars

C4_Witness ==
  /\ light_last_known_state = "dark"
  /\ light_ret = BRIGHTNESS_THRESHOLD + 4
  /\ Len(state_changes) >= 2

C6_BandBoundaries ==
  dist_ret # NONE =>
    /\ dist_band = (IF dist_ret < 350 THEN "close"
                    ELSE IF dist_ret <= 400 THEN "med" ELSE "far")
    /\ distance_last_known_state = dist_band
    /\ (dist_ret = 349 => dist_band = "close")
    /\ (dist_ret = 350 => dist_band = "med")
    /\ (dist_ret = 400 => dist_band = "med")
    /\ (dist_ret = 401 => dist_band = "far")

C6_Witness ==
  /\ dist_ret = 400
  /\ dist_band = "med"
  /\ Len(distance_changes) = 1
  /\ distance_changes[1].state = "far"

C8_FailureLeavesState ==
  [][ (dist_in'.n <= RIGHT_IRIS_RIGHT \/ dist_in'.iris = ZERO_WIDTH) =>
        /\ dist_ret' = NONE
        /\ distance_last_known_state' = distance_last_known_state
        /\ distance_state_start_time' = distance_state_start_time
        /\ distance_changes' = distance_changes ]_vars

\* ------------------------------------------------------------------- C9
\* C9: a measure call given the same input as the call before it appends
\* nothing to the distance transition log and leaves the current state
\* unchanged.
C9_DistanceIdempotent ==
  [][ dist_in' = dist_in =>
        /\ distance_changes' = distance_changes
        /\ distance_last_known_state' = distance_last_known_state ]_vars

C9_Witness ==
  /\ dist_repeats = MaxRepeats
  /\ dist_ret = 349
  /\ Len(distance_changes) >= 1
  /\ Last(distance_changes).end_time < now

\* ------------------------------------------------------------------ C10
\* C10 as stated: a detect call given the same input as the call before it
\* appends nothing to the direction transition log.
C10_DirectionIdempotent ==
  [][ dir_in' = dir_in => direction_changes' = direction_changes ]_vars

\* C10 as amended: a detect call given the same input as the call before
\* it appends nothing once the input's direction is the last accepted
\* direction; while that direction is still a candidate held back by the
\* 0.5 s buffer, the repeat that arrives more than 0.5 s after the last
\* accepted change appends the one entry that accepts it.  Repeats of an
\* input therefore append at most one entry in total.
C10_RepeatAppendsAtMostOnce ==
  /\ [][ dir_in' = dir_in =>
           IF dir_ret = last_known_direction
           THEN /\ direction_changes' = direction_changes
                /\ last_known_direction' = last_known_direction
           ELSE direction_changes' # direction_changes =>
                  /\ now' - last_change_time > BUFFER_TIME
                  /\ direction_changes' =
                       Append(direction_changes,
                              [away |-> IF dir_ret = "center" THEN 0 ELSE 1,
                               timestamp |-> now'])
                  /\ last_known_direction' = dir_ret ]_vars
  /\ [](dir_repeat_appends <= 1)

C10_Witness ==
  /\ dir_repeats = MaxRepeats
  /\ dir_repeat_appends = 1
  /\ dir_ret = last_known_direction

\* ------------------------------------------------------------------ C11
\* A detect call that classifies (at least 400 landmarks).
Classifies == dir_in'.n # NONE /\ dir_in'.n >= MIN_LANDMARKS

AcceptedNow ==
  /\ last_known_direction' = dir_ret'
  /\ last_change_time' = now'
  /\ direction_changes' =
       Append(direction_changes,
              [away |-> IF dir_ret' = "center" THEN 0 ELSE 1,
               timestamp |-> now'])

C12_EntriesHalfSecondApart ==
  /\ [][ Len(direction_changes') > Len(direction_changes)
         /\ direction_changes # <<>>
           => now' - Last(direction_changes).timestamp >= BUFFER_TIME ]_vars
  /\ [](\A i \in 1..(Len(direction_changes) - 1) :
          direction_changes[i + 1].timestamp
            - direction_changes[i].timestamp >= BUFFER_TIME)

\* ------------------------------------------------------------------ C13
RECURSIVE SumAwayPairs(_, _)
SumAwayPairs(log, S) ==
  IF S = {} THEN 0
  ELSE LET i == CHOOSE j \in S : TRUE
       IN  (log[i + 1].timestamp - log[i].timestamp)
             + SumAwayPairs(log, S \ {i})

\* C13: for every direction log, get_look_away_time returns the sum, over
\* the consecutive entry pairs (current, next) with current.away = 1, of
\* next.timestamp - current.timestamp; it returns 0 for a log shorter than
\* 2 and 5 for the log [{away:1,t:0},{away:0,t:5}].
C13_LookAwaySum ==
  la_done =>
    /\ la_result =
         SumAwayPairs(la_log,
                      {i \in 1..(Len(la_log) - 1) : la_log[i].away = 1})
    /\ (Len(la_log) < 2 => la_result = 0)
    /\ (la_log = <<[away |-> 1, timestamp |-> 0],
                   [away |-> 0, timestamp |-> 5]>> => la_result = 5)

C13_Witness ==
  /\ la_done
  /\ la_log = <<[away |-> 1, timestamp |-> 0], [away |-> 0, timestamp |-> 5]>>
  /\ la_result = 5

\* ------------------------------------------------------------------ C14
\* C14: continuous_look_time equals now minus the timestamp of the most
\* recent away entry of the direction log (or minus the first entry's
\* timestamp if there is no away entry), and it is the time of uninterrupted
\* centred viewing: from one snapshot to the next, while the last accepted
\* direction is left or right and the log has not changed, it does not grow.
C14_ContinuousLookIsCenteredTime ==
  /\ [][ dir_snap' # dir_snap =>
           dir_snap'.continuous_look_time =
             IF direction_changes = <<>> THEN 0
             ELSE IF \E i \in 1..Len(direction_changes) :
                        direction_changes[i].away = 1
             THEN now' - direction_changes[
                    CHOOSE i \in 1..Len(direction_changes) :
                      /\ direction_changes[i].away = 1
                      /\ \A j \in (i + 1)..Len(direction_changes) :
                            direction_changes[j].away = 0].timestamp
             ELSE now' - direction_changes[1].timestamp ]_vars
  /\ [][ ( /\ dir_snap' # dir_snap
           /\ dir_snap.taken
           /\ dir_snap.current_direction \in {"left", "right"}
           /\ dir_snap'.current_direction = dir_snap.current_direction
           /\ dir_snap.returned = direction_changes )
         => dir_snap'.continuous_look_time
              <= dir_snap.continuous_look_time ]_vars

\* ------------------------------------------------------------------ C20
\* C20: a dict returned by snap() is immutable once returned: whatever the
\* trackers do afterwards (process, detect, reset_tracking), every value
\* reachable from it, its direction_changes / state_changes list included,
\* is what it was when the dict was returned.
C20_SnapshotImmutable ==
  /\ dir_snap.taken
       => Reach(dir_snap.direction_changes) = dir_snap.returned
  /\ light_snap.taken
       => Reach(light_snap.state_changes) = light_snap.returned

\* ------------------------------------------------------------------ C15
Called(calls, name) == \E i \in 1..Len(calls) : calls[i] = name

\* C15: apply calls the zoom-in actuator on a tick exactly when the EAR of
\* the tick is below the zoom-in threshold, the EAR has been below it on
\* every tick since one that is at least 2.0 s old, and no zoom is applied;
\* it then calls it once. A tick whose EAR is not below the threshold makes
\* no zoom-in call and unsets the squint timer.
C15_ZoomInAfterHeldSquint ==
  [][ /\ Called(tick_calls', "scale") <=>
           /\ zoom_ear' < EAR_ZOOM_IN_THRES
           /\ below_since # NONE
           /\ now' - below_since >= squint_required_duration
           /\ ~adjusted
      /\ Called(tick_calls', "scale") =>
           Len(actuator_log') = Len(actuator_log) + 1
      /\ zoom_ear' >= EAR_ZOOM_IN_THRES =>
           /\ ~Called(tick_calls', "scale")
           /\ squint_start_time' = NONE ]_vars

\* EAR below the threshold at some tick and again exactly 2.0 s later: one
\* zoom-in call.
C15_Witness ==
  /\ tick_calls = <<"scale">>
  /\ actuator_log = <<"scale">>
  /\ now - below_since = 200

\* ------------------------------------------------------------------ C16
\* C16: the zoom-out actuator is called only on a tick that is at least
\* hold_duration (30 s) later than the zoom-in call before it and whose EAR
\* is above the zoom-out threshold.
C16_ZoomOutAfterHold ==
  [][ Called(tick_calls', "reset") =>
        /\ zoom_in_time # NONE
        /\ now' - zoom_in_time >= hold_duration
        /\ zoom_ear' > EAR_ZOOM_OUT_THRES ]_vars

C16_Witness ==
  /\ tick_calls = <<"reset">>
  /\ now - zoom_in_time = 3000
  /\ zoom_ear = 29

\* ------------------------------------------------------------------ C17
\* C17: the actuator calls alternate, starting with zoom-in; zoom-in is
\* never called while a zoom is applied, zoom-out never while none is, and a
\* tick makes at most one actuator call.
C17_CallsAlternate ==
  /\ [](\A i \in 1..Len(actuator_log) :
          actuator_log[i] = IF i % 2 = 1 THEN "scale" ELSE "reset")
  /\ [](Len(tick_calls) <= 1)
  /\ [][ /\ Called(tick_calls', "scale") => ~adjusted
         /\ Called(tick_calls', "reset") => adjusted ]_vars

C17_Witness ==
  /\ actuator_log = <<"scale", "reset", "scale">>
  /\ adjusted

\* ------------------------------------------------------------------ C18
\* C18: when a zoom actuator call or a notifier call raises, the error is
\* caught where the call is made and the loop goes on with the next frame:
\* after an iteration in which a collaborator raised the loop is still
\* running.
C18_FailureKeepsLoopRunning ==
  failed # "none" => running

\* ------------------------------------------------------------------ C19
\* C19: for each warning kind, two notifier calls of that kind are at
\* least the cooldown duration apart, however many consecutive iterations
\* the condition of the warning lasts.
C19_OncePerCooldown ==
  [][ ticks' = ticks + 1 =>
        \A k \in notified' :
          last_notified[k] # NONE =>
            now' - last_notified[k] >= cooldown_duration ]_vars

\* ------------------------------------------------------------------ C21
\* C21: whatever start_tracking / stop_tracking calls toggle_tracking
\* makes, at most one _track_loop thread is updating the trackers at any
\* time.
C21_SingleTickConsumer ==
  Cardinality({t \in Threads : thread_pc[t] = "update"}) <= 1

\* ------------------------------------------------------------------ C22
Exited(t) == thread_pc[t] \in {"unborn", "done"}

\* C22: a thread enters an iteration of the loop only from the test of the
\* flag, with the flag set, and returns to the test after it; once the flag
\* is cleared then, unless start_tracking sets it again, every thread leaves
\* its loop; and when a thread leaves, the capture has been released.
C22_CooperativeCancellation ==
  /\ [][ \A t \in Threads :
           /\ (thread_pc[t] # "read" /\ thread_pc'[t] = "read")
                => (thread_pc[t] = "check" /\ tracker_running)
           /\ (thread_pc[t] = "sleep" /\ thread_pc'[t] # "sleep")
                => thread_pc'[t] = "check"
           /\ (thread_pc[t] # "done" /\ thread_pc'[t] = "done")
                => cap_state' # "open" ]_vars
  /\ (~tracker_running) ~> (tracker_running \/ \A t \in Threads : Exited(t))

C22_Witness ==
  /\ ~tracker_running
  /\ thread_pc[1] = "done"
  /\ \A t \in Threads : Exited(t)
  /\ cap_state = "released"

\* ------------------------------------------------------------------ C23
blinkState == <<counter, is_currently_blinking, last_blink_time,
                recent_times>>
lightState == <<data, light_last_known_state, state_changes,
                dark_start_time, last_color_adjust_time>>
distanceState == <<distance_changes, distance_last_known_state,
                   distance_state_start_time>>
directionState == <<direction_changes, last_known_direction,
                    direction_state_start_time, last_change_time>>

\* C23: a detect call of BlinkTracker or DirectionTracker with fewer than
\* 400 landmarks, and a measure call of DistanceTracker with fewer than 468,
\* returns the neutral result (is_blinking false with avg_ear 0, "unknown",
\* None) and changes no field of any tracker.
C23_InsufficientLandmarksNoEffect ==
  [][ /\ \A n \in {k \in FewOrAll : k < 400}, ear \in LmEars,
            d \in LmSteps :
           BlinkDetect(n, ear, d) =>
             /\ blink_ret'.is_blinking = FALSE
             /\ blink_ret'.avg_ear = 0
             /\ UNCHANGED <<blinkState, lightState, distanceState,
                            directionState>>
      /\ \A n \in {k \in FewOrAll : k < 400}, offset \in LmOffsets,
            d \in LmSteps :
           DirectionDetect(n, offset, d) =>
             /\ dir_ret' = "unknown"
             /\ UNCHANGED <<blinkState, lightState, distanceState,
                            directionState>>
      /\ \A n \in {k \in FewOrAll : k < 468}, iris \in LmIris,
            d \in LmSteps :
           DistanceMeasure(n, TRUE, iris, d) =>
             /\ dist_ret' = NONE
             /\ UNCHANGED <<blinkState, lightState, distanceState,
                            directionState>> ]_vars

\* A direction call with 399 landmarks on a tracker that has a direction, a
\* log and a blink count.
C23_Witness ==
  /\ dir_in.n = 399
  /\ dir_ret = "unknown"
  /\ last_known_direction = "left"
  /\ counter > 0
  /\ dist_in.n = 467
  /\ distance_last_known_state = "close"

\* ------------------------------------------------------------------ C24
Dispatched == threads_started' = threads_started + 1

C25_BoundedInFlight ==
  tasks_in_flight <= MaxInFlight

\* ------------------------------------------------------------------ C26
\* C26: a color-adjust task that raises, whenever it does so, changes
\* neither the value process returned nor the state and log of the light
\* tracker, and the ticks after it are processed as usual.
C26_TaskFailureContained ==
  [][ /\ task_failures' > task_failures =>
           UNCHANGED <<lightState, light_ret>>
      /\ \A frame \in ColorFrames \ {BAD_FRAME}, start_ok \in BOOLEAN,
            d \in LightSteps :
           (task_failures > 0 /\ LightProcess(frame, start_ok, d)) =>
             /\ light_ret' = frame
             /\ light_last_known_state' \in {"light", "dark"} ]_vars

\* A task has raised and a later tick has changed the light state.
C26_Witness ==
  /\ failure_flips # NONE
  /\ light_flips > failure_flips
  /\ light_ret = 96

\* ------------------------------------------------------------------ C27
\* C27: after any detect call the blink history holds at most
\* MAX_BLINK_HISTORY timestamps, in the order they were appended (ascending
\* time); an accepted blink is appended at the end, and when that would
\* exceed the capacity exactly the oldest timestamp is dropped.
C27_BoundedOrderedHistory ==
  /\ [](Len(recent_times) <= MAX_BLINK_HISTORY)
  /\ [](\A i \in 1..(Len(recent_times) - 1) :
          recent_times[i] <= recent_times[i + 1])
  /\ [][ IF counter' = counter + 1
         THEN recent_times' =
                IF Len(recent_times) = MAX_BLINK_HISTORY
                THEN Tail(recent_times) \o <<now'>>
                ELSE recent_times \o <<now'>>
         ELSE recent_times' = recent_times ]_vars

\* A full history has taken one more blink and lost its oldest timestamp.
C27_Witness ==
  /\ counter = MAX_BLINK_HISTORY + 1
  /\ Len(recent_times) = MAX_BLINK_HISTORY
  /\ recent_times[1] = StartTime - HistoryGap * (MAX_BLINK_HISTORY - 1)
  /\ Last(recent_times) >= StartTime

\* ------------------------------------------------------------------ C28
\* C28: after every process call that succeeded, dark_start_time is set
\* exactly when the light state is dark; it then is the time of the tick on
\* which dark was entered, and later dark ticks leave it as it is.
C28_DarkStartTracksDarkness ==
  /\ [](light_last_known_state # NoState =>
          /\ dark_start_time # NONE <=> light_last_known_state = "dark"
          /\ light_last_known_state = "dark" =>
               /\ Last(state_changes).ambient_light = "dark"
               /\ dark_start_time = Last(state_changes).timestamp)
  /\ [][ (light_last_known_state = "dark"
            /\ light_last_known_state' = "dark")
         => dark_start_time' = dark_start_time ]_vars

\* Dark was entered on an earlier tick than the latest one.
C28_Witness ==
  /\ light_last_known_state = "dark"
  /\ light_ret = 80
  /\ dark_start_time # NONE
  /\ dark_start_time < now
  /\ Len(state_changes) >= 2

\* The five kinds the automatic test requests.
TestedKinds == {"low_light", "too_close", "look_away", "low_blink",
                "squinting"}

\* Kind w was displayed less than cooldown_duration before time t.
ShownWithin(w, t) ==
  /\ last_shown[w] # NONE
  /\ t - last_shown[w] < cooldown_duration

\* C29: cooldowns are per warning kind. A requested warning is displayed
\* exactly when its own kind was not displayed within the last
\* cooldown_duration, whatever the other kinds did: a different kind's
\* cooldown never suppresses it, a repeat of the same kind inside its
\* window is suppressed.
C29_CooldownPerKind ==
  [][\A w \in WarningTypes, x \in Details, d \in NotifySteps :
       ShowEyeHealthWarning(w, x, d) =>
         (nm_request'.displayed <=> ~ShownWithin(w, now'))]_vars

\* All five tested kinds are on display inside one cooldown window, and a
\* repeat of one of them has just been suppressed.
C29_Witness ==
  /\ \A w \in TestedKinds : ShownWithin(w, now)
  /\ active_notifications = 5
  /\ nm_request.warning_type \in TestedKinds
  /\ ~nm_request.displayed

\* C30: the look-away warning is requested only when the frames have had
\* the gaze away from centre continuously for more than the 15 s dwell,
\* measured from a start-of-condition timestamp that a frame with the
\* gaze at centre clears; look-away time of episodes that have
\* ended never makes it fire.
C30_LookAwayOnlyWhenSustained ==
  [][(HandleEyeHealthNotifications /\ "look_away" \in requested') =>
       (/\ metrics_gaze_direction # "center"
        /\ Sustained(away_since, LOOK_AWAY_DWELL, now))]_vars

\* The processed deliveries ended by the latest one on which the condition
\* held without a break span more than the dwell.
HeldFor(log, holds(_), dwell) ==
  \E i \in 1..Len(log) :
     /\ log[Len(log)].time - log[i].time > dwell
     /\ \A j \in i..Len(log) : holds(log[j])

IsLow(entry) == entry.low_light
IsOutOfBand(entry) == entry.out_of_band
IsSquinting(entry) == entry.squinting

\* A timestamp follows its condition: set by the first delivery that finds
\* it, kept while it holds, unset by the first delivery that does not.
Follows(start, start_after, holds) ==
  start_after = IF ~holds THEN NONE
                ELSE IF start = NONE THEN now ELSE start

\* C31: the low-light, distance and squint warnings are requested only
\* when their condition held on every processed delivery for more than the
\* dwell (3 s, 2 s, 2 s), and each start-of-condition timestamp is set on
\* the first delivery that finds the condition and unset on the first that
\* does not.
C31_SustainedPredicates ==
  [][(HandleEyeHealthNotifications /\ is_tracking) =>
       /\ "low_light" \in requested' =>
             HeldFor(processed', IsLow, LOW_LIGHT_DWELL)
       /\ (requested' \cap {"too_close", "too_far"} # {}) =>
             HeldFor(processed', IsOutOfBand, DISTANCE_DWELL)
       /\ "squinting" \in requested' =>
             HeldFor(processed', IsSquinting, SQUINT_DWELL)
       /\ Follows(low_light_start_time, low_light_start_time',
                  Last(processed').low_light)
       /\ Follows(distance_warning_start_time, distance_warning_start_time',
                  Last(processed').out_of_band)
       /\ Follows(squinting_start_time, squinting_start_time',
                  Last(processed').squinting)]_vars

\* One delivery requested all three after their dwells.
C31_Witness ==
  /\ requested = {"low_light", "too_close", "squinting"}
  /\ now - low_light_start_time > LOW_LIGHT_DWELL
  /\ low_light_start_time # NONE

\* The times t(seq[1]), t(seq[2]), ... never go back.
NonDecreasing(seq, t(_)) ==
  \A i \in 1..(Len(seq) - 1) : t(seq[i]) <= t(seq[i + 1])

TimestampOf(entry) == entry.timestamp
EndTimeOf(entry) == entry.end_time
Itself(time) == time

\* C32: under a clock that never goes back every transition log is
\* time-ordered: the timestamps of the light log, of the direction log and
\* of the blink history are non-decreasing, and every distance log entry
\* has start_time <= end_time with the entries ordered by end_time.
C32_LogsTimeOrdered ==
  /\ NonDecreasing(state_changes, TimestampOf)
  /\ NonDecreasing(direction_changes, TimestampOf)
  /\ NonDecreasing(recent_times, Itself)
  /\ NonDecreasing(distance_changes, EndTimeOf)
  /\ \A i \in 1..Len(distance_changes) :
        distance_changes[i].start_time <= distance_changes[i].end_time

\* Every log holds two entries at least, with time passing inside each.
C32_Witness ==
  /\ Len(state_changes) >= 2
  /\ Last(state_changes).timestamp > state_changes[1].timestamp
  /\ Len(direction_changes) >= 2
  /\ Last(direction_changes).timestamp > direction_changes[1].timestamp
  /\ Len(recent_times) >= 2
  /\ Last(recent_times) > recent_times[1]
  /\ Len(distance_changes) >= 2
  /\ Last(distance_changes).end_time > Last(distance_changes).start_time

\* Brightness one below or one above the threshold.
AroundThreshold(brightness) ==
  brightness \in {BRIGHTNESS_THRESHOLD - 1, BRIGHTNESS_THRESHOLD + 1}

\* C33: every classifier that feeds the light snapshot decides with two
\* distinct bounds, so a brightness that alternates between THRESHOLD - 1
\* and THRESHOLD + 1 makes no state change: for process_ambient_light, a
\* call with such a brightness after a call with such a brightness leaves
\* the light state and the transition log as they were.
C33_NoFlappingAroundThreshold ==
  [][(/\ last_known_light_state # NoState
      /\ AroundThreshold(utils_light_ret)
      /\ AroundThreshold(utils_light_ret')) =>
        /\ last_known_light_state' = last_known_light_state
        /\ light_state_changes' = light_state_changes]_vars

\* C34: calculate_blink_rate returns 0 when the history has fewer than two
\* entries or spans no time, and otherwise (n - 1) divided by the span in
\* minutes between the oldest and the newest entry: rate * span is
\* (n - 1) * 60 s.
C34_BlinkRate ==
  [][CalculateBlinkRate =>
       LET n == Len(recent_times)
           span == IF n = 0 THEN 0 ELSE recent_times[n] - recent_times[1]
       IN  IF n < 2 \/ span = 0
           THEN blink_rate'.num = 0
           ELSE /\ blink_rate'.den > 0
                /\ blink_rate'.num * span
                     = (n - 1) * MINUTE * blink_rate'.den]_vars

\* The rate of a history of three blinks or more has been computed.
C34_Witness ==
  /\ Len(recent_times) >= 3
  /\ blink_rate.num = (Len(recent_times) - 1) * MINUTE
  /\ blink_rate.den = Last(recent_times) - recent_times[1]

\* The tick now arriving is at or after hold-start + 30 s while zoomed.
HoldOver == /\ adjusted
            /\ squint_hold_start # NONE
            /\ now' - squint_hold_start >= hold_duration

\* C35: while zoomed, the first tick at or after hold-start + 30 s whose EAR
\* is above the zoom-out threshold calls the zoom-out actuator and leaves
\* the controller idle, with the squint timer and the hold-start unset; a
\* tick whose EAR is not above the threshold leaves it zoomed.
C35_ZoomOutReturnsToIdle ==
  [][ /\ (HoldOver /\ zoom_ear' > EAR_ZOOM_OUT_THRES) =>
           /\ Called(tick_calls', "reset")
           /\ ~adjusted'
           /\ squint_start_time' = NONE
           /\ squint_hold_start' = NONE
      /\ (adjusted /\ zoom_ear' <= EAR_ZOOM_OUT_THRES) =>
           /\ adjusted'
           /\ ~Called(tick_calls', "reset") ]_vars

\* C36: the counter goes up by at most one per maximal run of consecutive
\* below-threshold ticks, and only on the first tick of the run: a tick
\* that continues a run never counts, so a closure that begins inside the
\* refractory window and lasts past it is never counted. The flag is
\* cleared only by a tick whose EAR is at or above the threshold, and that
\* tick leaves the counter unchanged.
C36_OneCountPerClosure ==
  [][ /\ counter' # counter =>
           /\ counter' = counter + 1
           /\ blink_ret'.is_blinking
           /\ ~blink_ret.is_blinking
      /\ (blink_ret.is_blinking /\ blink_ret'.is_blinking) =>
           counter' = counter
      /\ (is_currently_blinking /\ ~is_currently_blinking') =>
           /\ ~blink_ret'.is_blinking
           /\ blink_ret'.avg_ear >= EAR_BLINK_THRES
           /\ counter' = counter ]_vars

\* A closure that began inside the refractory window after a counted blink
\* has lasted past the window and was not counted.
C36_Witness ==
  /\ counter >= 1
  /\ is_currently_blinking
  /\ blink_ret.is_blinking
  /\ edge_time - edge_last < REFRACTORY_SEC
  /\ now - edge_last >= REFRACTORY_SEC
  /\ now > edge_time
  /\ counter = edge_counter

\* C37: in every reachable state the zoom-applied flag is true exactly
\* when the hold-start is set; the hold-start is set only by a zoom-in, to
\* the time of that tick, and is then not modified until the zoom-out that
\* unsets it.
C37_FlagMatchesHoldStart ==
  /\ [](adjusted <=> squint_hold_start # NONE)
  /\ [][ /\ (squint_hold_start = NONE /\ squint_hold_start' # NONE) =>
             /\ Called(tick_calls', "scale")
             /\ squint_hold_start' = now'
         /\ (squint_hold_start # NONE
               /\ squint_hold_start' # squint_hold_start) =>
             /\ Called(tick_calls', "reset")
             /\ squint_hold_start' = NONE ]_vars

\* A zoom has been applied and kept past the hold duration, then undone.
C37_Witness ==
  /\ actuator_log = <<"scale", "reset">>
  /\ ~adjusted
  /\ squint_hold_start = NONE
  /\ now - zoom_in_time >= hold_duration

\* C38: after every process call that returned normally, adjacent entries
\* of the light transition log have different states, the state of the
\* last entry is the current_state that snap() reports, and that state is
\* the tracker's last_known_state.
C38_LightLogAlternates ==
  light_last_known_state # NoState =>
    /\ \A i \in 1..(Len(state_changes) - 1) :
          state_changes[i].ambient_light
            # state_changes[i + 1].ambient_light
    /\ state_changes # <<>>
    /\ Last(state_changes).ambient_light
         = LightSnapOf(data, state_changes, dark_start_time).current_state
    /\ LightSnapOf(data, state_changes, dark_start_time).current_state
         = light_last_known_state

\* The log has gone light, dark, light.
C38_Witness ==
  /\ Len(state_changes) = 3
  /\ state_changes[1].ambient_light = "light"
  /\ state_changes[2].ambient_light = "dark"
  /\ light_last_known_state = "light"
  /\ light_ret >= BRIGHTNESS_THRESHOLD + HYSTERESIS

\* C39: while tracking is paused a delivery of metrics_updated requests no
\* warning from the notification manager, whatever the metrics are and
\* however toggle_tracking calls and deliveries interleave.
C39_NoWarningWhilePaused ==
  [][(HandleEyeHealthNotifications /\ ~is_tracking) =>
       /\ requested' = {}
       /\ UNCHANGED notifyVars]_vars

\* A delivery that came while paused carried metrics for which warnings
\* were due.
C39_Witness ==
  /\ ~is_tracking
  /\ withheld # {}
  /\ requested = {}

\* ------------------------------------------------------------------ C40
\* C40: a dispatch attempt that follows a failed one, whether the start of
\* the thread raised or the task raised later, comes no sooner than the
\* 30 s interval after the attempt before it.
C40_NoEarlyRetry ==
  [][ \A frame \in ColorFrames, start_ok \in BOOLEAN, d \in LightSteps :
        ( /\ LightProcess(frame, start_ok, d)
          /\ frame # BAD_FRAME
          /\ AdjustDue(now', last_color_adjust_time)
          /\ attempt_time # NONE
          /\ attempt_failed ) =>
          now' - attempt_time >= COLOR_ADJUST_INTERVAL ]_vars

====
